---------------------------- MODULE Spec2Model ----------------------------
(***************************************************************************)
(* A model of cctz: the civil-calendar engine of the libc-backed zone      *)
(* (src/src/cctz_libc.cc) and the formatter and parser                     *)
(* (src/src/cctz_fmt.cc).                                                  *)
(*                                                                         *)
(* The C++ code works on int (32 bit), int64_t / std::time_t (64 bit) and  *)
(* on a 128-bit nanosecond count.  Values of the wide types are modelled   *)
(* as exact integers in sign-and-magnitude form, [neg, mag], mag being the *)
(* little-endian sequence of base-10^4 limbs without leading zero limbs;   *)
(* the limits of a type are enforced where the code depends on them.       *)
(***************************************************************************)
EXTENDS Integers, Sequences, FiniteSets, TLC

VARIABLES
  pc,       \* the position of the calling program
  civil,    \* the civil-time fields handed to MakeTimeInfo
  zone,     \* the TimeZone the calls are made with
  format,   \* the format string handed to Format / Parse
  input,    \* the input string handed to Parse
  plan,     \* how format and input were put together: <<directive, text>> pieces
  src,      \* the time_point handed to BreakTime / Format
  tp,       \* the caller's time_point object, Parse's out parameter
  ti,       \* the TimeInfo returned by MakeTimeInfo
  bd,       \* the Breakdown returned by BreakTime / handed to the formatter
  out,      \* the string returned by Format
  ok,       \* the value returned by Parse
  scan      \* the locals of a Parse that is in its loop

vars ==
  <<pc, civil, zone, format, input, plan, src, tp, ti, bd, out, ok, scan>>

---------------------------------------------------------------------------
(* Wide integers.                                                          *)

Base == 10^4

Limb(a, i) == IF i <= Len(a) THEN a[i] ELSE 0

RECURSIVE Strip(_)
Strip(m) ==
  IF m = <<>> THEN m
  ELSE IF m[Len(m)] = 0 THEN Strip(SubSeq(m, 1, Len(m) - 1)) ELSE m

WMake(neg, mag) ==
  LET m == Strip(mag) IN [neg |-> (neg /\ m # <<>>), mag |-> m]

RECURSIVE MagOfNat(_)
MagOfNat(n) == IF n = 0 THEN <<>> ELSE <<n % Base>> \o MagOfNat(n \div Base)

\* The magnitude of a negative machine int, computed without negating it.
RECURSIVE MagOfNeg(_)
MagOfNeg(n) ==
  IF n = 0 THEN <<>>
  ELSE LET q == (n + (Base - 1)) \div Base   \* n / Base, truncated
       IN  <<(q * Base) - n>> \o MagOfNeg(q)

W(n) == IF n >= 0 THEN [neg |-> FALSE, mag |-> MagOfNat(n)]
        ELSE [neg |-> TRUE, mag |-> MagOfNeg(n)]

RECURSIVE MagCmpFrom(_, _, _)
MagCmpFrom(a, b, i) ==
  IF i = 0 THEN 0
  ELSE IF a[i] < b[i] THEN -1
  ELSE IF a[i] > b[i] THEN 1
  ELSE MagCmpFrom(a, b, i - 1)

MagCmp(a, b) ==
  IF Len(a) < Len(b) THEN -1
  ELSE IF Len(a) > Len(b) THEN 1
  ELSE MagCmpFrom(a, b, Len(a))

RECURSIVE MagAddC(_, _, _, _)
MagAddC(a, b, i, c) ==
  IF i > Len(a) /\ i > Len(b) THEN (IF c = 0 THEN <<>> ELSE <<c>>)
  ELSE LET s == Limb(a, i) + Limb(b, i) + c
       IN  <<s % Base>> \o MagAddC(a, b, i + 1, s \div Base)

\* a - b for a >= b
RECURSIVE MagSubC(_, _, _, _)
MagSubC(a, b, i, br) ==
  IF i > Len(a) THEN <<>>
  ELSE LET d == a[i] - Limb(b, i) - br
       IN  IF d < 0 THEN <<d + Base>> \o MagSubC(a, b, i + 1, 1)
           ELSE <<d>> \o MagSubC(a, b, i + 1, 0)

\* a * k for a small k >= 0
RECURSIVE MagMulC(_, _, _, _)
MagMulC(a, k, i, c) ==
  IF i > Len(a) THEN MagOfNat(c)
  ELSE LET s == (a[i] * k) + c
       IN  <<s % Base>> \o MagMulC(a, k, i + 1, s \div Base)

\* quotient and remainder of a by a small k > 0
RECURSIVE MagDivMod(_, _)
MagDivMod(a, k) ==
  IF a = <<>> THEN [q |-> <<>>, r |-> 0]
  ELSE LET hi  == MagDivMod(Tail(a), k)
           cur == (hi.r * Base) + Head(a)
       IN  [q |-> <<cur \div k>> \o hi.q, r |-> cur % k]

WNeg(x) == WMake(~x.neg, x.mag)

WAdd(x, y) ==
  IF x.neg = y.neg THEN WMake(x.neg, MagAddC(x.mag, y.mag, 1, 0))
  ELSE IF MagCmp(x.mag, y.mag) >= 0
       THEN WMake(x.neg, MagSubC(x.mag, y.mag, 1, 0))
       ELSE WMake(y.neg, MagSubC(y.mag, x.mag, 1, 0))

WSub(x, y) == WAdd(x, WNeg(y))

WCmp(x, y) ==
  IF x.neg /\ ~y.neg THEN -1
  ELSE IF ~x.neg /\ y.neg THEN 1
  ELSE IF x.neg THEN MagCmp(y.mag, x.mag) ELSE MagCmp(x.mag, y.mag)

WLt(x, y) == WCmp(x, y) < 0
WLe(x, y) == WCmp(x, y) <= 0

\* x * k, k a machine int of magnitude at most 2 * 10^5
WMulS(x, k) ==
  IF k >= 0 THEN WMake(x.neg, MagMulC(x.mag, k, 1, 0))
  ELSE WMake(~x.neg, MagMulC(x.mag, 0 - k, 1, 0))

\* x + k and x - k for a machine int k
WAddS(x, k) == WAdd(x, W(k))
WSubS(x, k) == WSub(x, W(k))

\* C++ x / k and x % k for a small k > 0: the quotient is truncated toward
\* zero and the remainder takes the sign of x.
WDivS(x, k) == WMake(x.neg, MagDivMod(x.mag, k).q)
WModS(x, k) == LET r == MagDivMod(x.mag, k).r IN IF x.neg THEN 0 - r ELSE r

\* floor(x / k) and the remainder in 0 .. k-1, for a small k > 0
WFloorDivS(x, k) ==
  IF WModS(x, k) < 0 THEN WSubS(WDivS(x, k), 1) ELSE WDivS(x, k)
WFloorModS(x, k) == LET r == WModS(x, k) IN IF r < 0 THEN r + k ELSE r

\* The machine int equal to x, for x in the range of int.
RECURSIVE MagToNeg(_)
MagToNeg(m) == IF m = <<>> THEN 0 ELSE (MagToNeg(Tail(m)) * Base) - Head(m)

WToInt(x) == IF x.neg THEN MagToNeg(x.mag) ELSE 0 - MagToNeg(x.mag)

---------------------------------------------------------------------------
(* C++ integer division on machine ints: the quotient is truncated toward  *)
(* zero and the remainder takes the sign of the dividend (b > 0).          *)

CDiv(a, b) ==
  IF a >= 0 \/ a % b = 0 THEN a \div b ELSE (a \div b) + 1
CMod(a, b) == a - (b * CDiv(a, b))

\* let v be the value of an expression in F: every later use of the value is
\* a use of F's parameter.
Let(v, F(_)) == F(v)

---------------------------------------------------------------------------
(* The time types of cctz.h and cctz_if.h.  A duration and a time_point    *)
(* are counts of nanoseconds (since the Unix epoch for a time_point).      *)

\* std::chrono::seconds(n) as a duration, n a wide integer
Seconds(n) == WMulS(WMulS(n, 10^5), 10^4)

\* duration_cast of a nanosecond count to whole seconds (truncating)
ToUnixSeconds(t) == WDivS(WDivS(t, 10^5), 10^4)

FromUnixSeconds(t) == Seconds(t)

DurationZero == W(0)

---------------------------------------------------------------------------
(* The zones: TimeZoneLibC objects.  A zone is [local, offset, abbr]; for  *)
(* "localtime" the offset and the abbreviation are the host's.             *)

\* TimeZoneLibC("UTC")
UTCTimeZone == [local |-> FALSE, offset |-> 0, abbr |-> "UTC"]

\* TimeZoneLibC("localtime") on a host whose local time is off seconds
\* east of UTC all year
LocalTimeZone(off) == [local |-> TRUE, offset |-> off, abbr |-> "LCL"]

---------------------------------------------------------------------------
(* The host's calendar functions used by the libc backend: gmtime_r,       *)
(* localtime_r and mktime, for a 64-bit time_t and a host whose local time *)
(* is a fixed offset from UTC.  A std::tm is a record of machine ints.     *)

\* The proleptic Gregorian date of a day number (days since 1970-01-01).
HostCivilFromDays(days) ==
  Let(WAddS(days, 719468), LAMBDA z :
  Let(WFloorDivS(z, 146097), LAMBDA era :
  Let(WToInt(WSub(z, WMulS(era, 146097))), LAMBDA doe :
  Let((doe - (doe \div 1460) + (doe \div 36524) - (doe \div 146096)) \div 365,
      LAMBDA yoe :
  Let(doe - ((365 * yoe) + (yoe \div 4) - (yoe \div 100)), LAMBDA doy :
  Let(((5 * doy) + 2) \div 153, LAMBDA mp :
  Let(IF mp < 10 THEN mp + 3 ELSE mp - 9, LAMBDA m :
    [year |-> WAddS(WAddS(WMulS(era, 400), yoe), IF m <= 2 THEN 1 ELSE 0),
     mon  |-> m,
     mday |-> doy - (((153 * mp) + 2) \div 5) + 1,
     yday |-> IF m > 2
              THEN doy + 59 + (IF yoe % 4 = 0 /\ (yoe % 100 # 0 \/ yoe = 0)
                               THEN 1 ELSE 0)
              ELSE doy - 306])))))))

\* gmtime_r(&t, &tm): the std::tm of t seconds after the epoch, in UTC.
HostGmtime(t) ==
  Let(WFloorDivS(t, 86400), LAMBDA days :
  Let(WFloorModS(t, 86400), LAMBDA rem :
  Let(HostCivilFromDays(days), LAMBDA c :
    [tm_year |-> WToInt(WSubS(c.year, 1900)), tm_mon |-> c.mon - 1,
     tm_mday |-> c.mday, tm_hour |-> rem \div 3600,
     tm_min |-> (rem % 3600) \div 60, tm_sec |-> rem % 60,
     tm_wday |-> (WFloorModS(days, 7) + 4) % 7, tm_yday |-> c.yday,
     tm_isdst |-> 0, tm_gmtoff |-> 0, tm_zone |-> "GMT"])))

\* localtime_r(&t, &tm) where local time is off seconds east of UTC.
HostLocaltime(t, off) ==
  [HostGmtime(WAddS(t, off)) EXCEPT !.tm_gmtoff = off, !.tm_zone = "LCL"]

\* The days from 1970-01-01 to the first day of month mon0 (zero-based, any
\* int) of year (a wide integer), as the host's mktime counts them.
HostDaysToMonth(year, mon0) ==
  Let((mon0 % 12) + 1, LAMBDA m :
  Let(WSubS(WAddS(year, mon0 \div 12), IF m <= 2 THEN 1 ELSE 0), LAMBDA yy :
  Let(WFloorDivS(yy, 400), LAMBDA era :
  Let(WToInt(WSub(yy, WMulS(era, 400))), LAMBDA yoe :
    WSubS(WAddS(WMulS(era, 146097),
                (yoe * 365) + (yoe \div 4) - (yoe \div 100)
                + (((153 * (IF m > 2 THEN m - 3 ELSE m + 9)) + 2) \div 5)),
          719468)))))

\* mktime(&tm) where local time is off seconds east of UTC: the time_t of
\* the fields read as local time, and the std::tm rewritten in normal form.
HostMktime(tm, off) ==
  Let(WAddS(HostDaysToMonth(W(tm.tm_year + 1900), tm.tm_mon), tm.tm_mday - 1),
      LAMBDA days :
  Let(WSubS(WAdd(WMulS(days, 86400),
                 WAdd(WMulS(W(tm.tm_hour), 3600),
                      WAdd(WMulS(W(tm.tm_min), 60), W(tm.tm_sec)))), off),
      LAMBDA t :
    [t |-> t, tm |-> HostLocaltime(t, off)]))

---------------------------------------------------------------------------
(* The civil calendar of cctz_libc.cc.                                     *)

\* Normalize val so that 0 <= val < base, returning any carry.
NormalizeField(base, val, normalized) ==
  LET carry0 == CDiv(val, base)
      val0   == CMod(val, base)
      carry  == IF val0 < 0 THEN carry0 - 1 ELSE carry0
      val1   == IF val0 < 0 THEN val0 + base ELSE val0
  IN  [carry |-> carry, val |-> val1,
       normalized |-> (normalized \/ carry # 0)]

IsLeap(year) ==
  WModS(year, 4) = 0 /\ (WModS(year, 100) # 0 \/ WModS(year, 400) = 0)

\* The month lengths in non-leap and leap years: kDaysPerMonth[leap][month]
kDaysPerMonth(leap, month) ==
  IF leap THEN <<31, 29, 31, 30, 31, 30, 31, 31, 30, 31, 30, 31>>[month]
  ELSE <<31, 28, 31, 30, 31, 30, 31, 31, 30, 31, 30, 31>>[month]

\* The number of days in non-leap and leap years: kDaysPerYear[leap]
kDaysPerYear(leap) == IF leap THEN 366 ELSE 365

\* DayOrdinal with the era of a plain truncating division.
DayOrdinal_TruncatedEra(year, month, day) ==
  Let(WSubS(year, IF month <= 2 THEN 1 ELSE 0), LAMBDA y :
  Let(WDivS(y, 400), LAMBDA era :
  Let(WToInt(WSub(y, WMulS(era, 400))), LAMBDA yoe :
  Let(CDiv((153 * (month + (IF month > 2 THEN -3 ELSE 9))) + 2, 5) + day - 1,
      LAMBDA doy :
  Let((yoe * 365) + CDiv(yoe, 4) - CDiv(yoe, 100) + doy, LAMBDA doe :
    WSubS(WAddS(WMulS(era, 146097), doe), 719468))))))

\* Map a (normalized) Y/M/D to the number of days before/after 1970-01-01.
DayOrdinal(year, month, day) ==
  Let(WSubS(year, IF month <= 2 THEN 1 ELSE 0), LAMBDA y :
  Let(WDivS(IF ~y.neg THEN y ELSE WSubS(y, 399), 400), LAMBDA era :
  Let(WToInt(WSub(y, WMulS(era, 400))), LAMBDA yoe :
  Let(CDiv((153 * (month + (IF month > 2 THEN -3 ELSE 9))) + 2, 5) + day - 1,
      LAMBDA doy :
  Let((yoe * 365) + CDiv(yoe, 4) - CDiv(yoe, 100) + doy, LAMBDA doe :
    WSubS(WAddS(WMulS(era, 146097), doe), 719468))))))

\* while (day > year_len) { day -= year_len; year += 1; ... }
RECURSIVE YearsForward(_, _)
YearsForward(day, year) ==
  Let(kDaysPerYear(IsLeap(year)), LAMBDA year_len :
    IF day > year_len THEN YearsForward(day - year_len, WAddS(year, 1))
    ELSE [day |-> day, year |-> year])

\* YearsBackward adding the length of the year it leaves, not of the year
\* it enters.
RECURSIVE YearsBackward_LengthOfLeftYear(_, _)
YearsBackward_LengthOfLeftYear(day, year) ==
  IF day <= 0
  THEN YearsBackward_LengthOfLeftYear(day + kDaysPerYear(IsLeap(year)),
                                      WSubS(year, 1))
  ELSE [day |-> day, year |-> year]

\* while (day <= 0) { year -= 1; day += kDaysPerYear[IsLeap(year)]; }
RECURSIVE YearsBackward(_, _)
YearsBackward(day, year) ==
  IF day <= 0
  THEN Let(WSubS(year, 1), LAMBDA y1 :
         YearsBackward(day + kDaysPerYear(IsLeap(y1)), y1))
  ELSE [day |-> day, year |-> year]

\* while (day > kDaysPerMonth[leap_year][mon]) { ... }
RECURSIVE MonthsForward(_, _, _)
MonthsForward(day, mon, year) ==
  Let(kDaysPerMonth(IsLeap(year), mon), LAMBDA len :
    IF day > len
    THEN IF mon + 1 > 12 THEN MonthsForward(day - len, 1, WAddS(year, 1))
         ELSE MonthsForward(day - len, mon + 1, year)
    ELSE [day |-> day, mon |-> mon, year |-> year])

---------------------------------------------------------------------------
(* TimeZoneLibC::BreakTime and TimeZoneLibC::MakeTimeInfo; tz is the zone  *)
(* object the method is called on.                                         *)

\* BreakdownOf keeping the host's weekday, 0 = Sunday.
BreakdownOf_HostWeekday(tm, subsecond, tz) ==
  [year |-> WAddS(W(tm.tm_year), 1900),
   month |-> tm.tm_mon + 1,
   day |-> tm.tm_mday,
   hour |-> tm.tm_hour,
   minute |-> tm.tm_min,
   second |-> tm.tm_sec,
   subsecond |-> subsecond,
   weekday |-> tm.tm_wday,
   yearday |-> tm.tm_yday + 1,
   is_dst |-> (tm.tm_isdst # 0),
   offset |-> (IF tz.local THEN tm.tm_gmtoff ELSE tm.tm_gmtoff + tz.offset),
   abbr |-> (IF tz.local THEN tm.tm_zone ELSE tz.abbr)]

\* The Breakdown built from the std::tm and the subsecond.
BreakdownOf(tm, subsecond, tz) ==
  [year |-> WAddS(W(tm.tm_year), 1900),
   month |-> tm.tm_mon + 1,
   day |-> tm.tm_mday,
   hour |-> tm.tm_hour,
   minute |-> tm.tm_min,
   second |-> tm.tm_sec,
   subsecond |-> subsecond,
   weekday |-> (IF tm.tm_wday # 0 THEN tm.tm_wday ELSE 7),
   yearday |-> tm.tm_yday + 1,
   is_dst |-> (tm.tm_isdst # 0),
   offset |-> (IF tz.local THEN tm.tm_gmtoff ELSE tm.tm_gmtoff + tz.offset),
   abbr |-> (IF tz.local THEN tm.tm_zone ELSE tz.abbr)]

\* SplitSeconds without the step of lines 37-40: the truncated seconds and
\* what is left.
SplitSeconds_Truncated(t) ==
  Let(ToUnixSeconds(t), LAMBDA t0 :
    [t |-> t0, subsecond |-> WSub(t, FromUnixSeconds(t0))])

\* The whole seconds t and the subsecond in [0s, 1s) of a time_point.
SplitSeconds(t) ==
  Let(ToUnixSeconds(t), LAMBDA t0 :
  Let(WSub(t, FromUnixSeconds(t0)), LAMBDA subsecond :
    IF WLt(subsecond, DurationZero)
    THEN [t |-> WSubS(t0, 1), subsecond |-> WAdd(subsecond, Seconds(W(1)))]
    ELSE [t |-> t0, subsecond |-> subsecond]))

BreakTime(t, tz) ==
  Let(SplitSeconds(t), LAMBDA s :
    BreakdownOf(IF tz.local THEN HostLocaltime(s.t, tz.offset)
                ELSE HostGmtime(s.t),
                s.subsecond, tz))

\* The else branch of MakeTimeInfo (the zone is not the local one): the
\* time_t and the normalized flag.
MakeTimeUTC(year, mon, day, hour, min, sec) ==
  Let(NormalizeField(60, sec, FALSE), LAMBDA n1 :
  Let(NormalizeField(60, min + n1.carry, n1.normalized), LAMBDA n2 :
  Let(NormalizeField(24, hour + n2.carry, n2.normalized), LAMBDA n3 :
  Let(NormalizeField(12, mon - 1, n3.normalized), LAMBDA n4 :
  Let(YearsForward(day + n3.carry,
                   WAddS(WAddS(year, n4.carry),
                         IF n4.val + 1 > 2 THEN 1 ELSE 0)), LAMBDA fwd :
  Let(YearsBackward(fwd.day, fwd.year), LAMBDA bwd :
  Let(MonthsForward(bwd.day, n4.val + 1,
                    WSubS(bwd.year, IF n4.val + 1 > 2 THEN 1 ELSE 0)),
      LAMBDA mf :
    [t |-> WAddS(WMulS(WAddS(WMulS(WAddS(WMulS(
             DayOrdinal(mf.year, mf.mon, mf.day), 24), n3.val), 60),
             n2.val), 60), n1.val),
     normalized |-> n4.normalized])))))))

\* The local branch of MakeTimeInfo: mktime, and normalized when mktime
\* changed a field.
MakeTimeLocal(year, mon, day, hour, min, sec, off) ==
  Let(HostMktime([tm_year |-> WToInt(WSubS(year, 1900)), tm_mon |-> mon - 1,
                  tm_mday |-> day, tm_hour |-> hour, tm_min |-> min,
                  tm_sec |-> sec, tm_isdst |-> -1], off), LAMBDA r :
    [t |-> r.t,
     normalized |->
       (\/ W(r.tm.tm_year) # WSubS(year, 1900)
        \/ r.tm.tm_mon # mon - 1
        \/ r.tm.tm_mday # day
        \/ r.tm.tm_hour # hour
        \/ r.tm.tm_min # min
        \/ r.tm.tm_sec # sec)])

\* The TimeInfo of the time_t and the normalized flag.
TimeInfoOf(r) ==
  Let(FromUnixSeconds(r.t), LAMBDA p :
    [kind |-> "UNIQUE", pre |-> p, trans |-> p, post |-> p,
     normalized |-> r.normalized])

MakeTimeInfo(year, mon, day, hour, min, sec, tz) ==
  TimeInfoOf(IF tz.local
             THEN MakeTimeLocal(year, mon, day, hour, min, sec, tz.offset)
             ELSE MakeTimeUTC(year, mon, day, hour, min, sec))

\* MakeTime: the time_point according to the pre-transition offset.
MakeTime(year, mon, day, hour, min, sec, tz) ==
  MakeTimeInfo(year, mon, day, hour, min, sec, tz).pre

---------------------------------------------------------------------------
(* C strings.  A string is the sequence of its characters (one-character   *)
(* strings); a pointer into it is an index, the terminating NUL is read at *)
(* index Len + 1, and nullptr is the index 0.                              *)

Str(s) == [i \in 1..Len(s) |-> SubSeq(s, i, i)]

NUL == "NUL"

nullptr == 0

CharAt(s, i) == IF i >= 1 /\ i <= Len(s) THEN s[i] ELSE NUL

\* s[from .. to), the characters from index from up to, not including, to
Chars(s, from, to) == SubSeq(s, from, to - 1)

kDigits == Str("0123456789")

\* strchr(s, c) as an offset into s; the terminator is found at Len(s);
\* -1 when c is not in s.
StrChr(s, c) ==
  IF c = NUL THEN Len(s)
  ELSE IF \E i \in 1..Len(s) : s[i] = c
       THEN (CHOOSE i \in 1..Len(s) : s[i] = c /\ \A j \in 1..(i - 1) : s[j] # c) - 1
       ELSE -1

IsSpace(c) == c \in {" ", "\t", "\n", "\r"}

IsDigit(c) == c \in {"0", "1", "2", "3", "4", "5", "6", "7", "8", "9"}

\* The limits of int and int64_t
kintmax == 2147483647
kintmin == (0 - 2147483647) - 1
INT64_MAX == [neg |-> FALSE, mag |-> <<5807, 5477, 368, 3372, 922>>]
INT64_MIN == [neg |-> TRUE, mag |-> <<5808, 5477, 368, 3372, 922>>]

\* The number of base-10 digits that can be represented by an int64_t
kDigits10_64 == 18

\* x * kExp10[n] and x / kExp10[n]
RECURSIVE MulExp10(_, _)
MulExp10(x, n) == IF n = 0 THEN x ELSE MulExp10(WMulS(x, 10), n - 1)

RECURSIVE DivExp10(_, _)
DivExp10(x, n) == IF n = 0 THEN x ELSE DivExp10(WDivS(x, 10), n - 1)

---------------------------------------------------------------------------
(* The writers of cctz_fmt.cc.  Each writes backwards from ep and returns  *)
(* the new start; here each returns the characters it wrote, in reading    *)
(* order, so ep - bp is the length of what is returned.                    *)

\* do { --width; *--ep = kDigits[v % 10]; } while (v /= 10);  for v >= 0
RECURSIVE Format64Digits(_, _, _)
Format64Digits(width, v, written) ==
  Let(WDivS(v, 10), LAMBDA rest :
    IF rest # W(0)
    THEN Format64Digits(width - 1, rest, <<kDigits[WModS(v, 10) + 1]>> \o written)
    ELSE [width |-> width - 1,
          written |-> <<kDigits[WModS(v, 10) + 1]>> \o written])

\* while (--width >= 0) *--ep = '0';
RECURSIVE Format64Pad(_, _)
Format64Pad(width, written) ==
  IF width - 1 >= 0 THEN Format64Pad(width - 1, <<"0">> \o written)
  ELSE written

\* The part of Format64 for v < 0: the width left, the value made positive
\* and the last digit when it was written apart (v == INT64_MIN).
Format64Negative(width, v) ==
  IF v = INT64_MIN
  THEN Let(0 - WModS(v, 10), LAMBDA last_digit :
         [width |-> width - 2,
          v |-> WNeg(IF last_digit < 0 THEN WAddS(WDivS(v, 10), 1)
                     ELSE WDivS(v, 10)),
          written |-> <<kDigits[(IF last_digit < 0 THEN last_digit + 10
                                 ELSE last_digit) + 1]>>])
  ELSE [width |-> width - 1, v |-> WNeg(v), written |-> <<>>]

\* Formats a 64-bit integer in the given field width.
Format64(width, v) ==
  Let(IF v.neg THEN Format64Negative(width, v)
      ELSE [width |-> width, v |-> v, written |-> <<>>], LAMBDA s :
  Let(Format64Digits(s.width, s.v, s.written), LAMBDA d :
    (IF v.neg THEN <<"-">> ELSE <<>>) \o Format64Pad(d.width, d.written)))

\* Formats [0 .. 99] as %02d.
Format02d(v) == <<kDigits[(CDiv(v, 10) % 10) + 1], kDigits[(v % 10) + 1]>>

\* Formats a UTC offset, like +00:00.
FormatOffset(minutes, sep) ==
  Let(IF minutes < 0 THEN 0 - minutes ELSE minutes, LAMBDA m :
    <<IF minutes < 0 THEN "-" ELSE "+">>
    \o Format02d(CDiv(m, 60))
    \o (IF sep # NUL THEN <<sep>> ELSE <<>>)
    \o Format02d(m % 60))

---------------------------------------------------------------------------
(* Format.                                                                 *)

\* std::tm of a Breakdown; tm_year saturates at the limits of int.
ToTM(b) ==
  [tm_sec |-> b.second, tm_min |-> b.minute, tm_hour |-> b.hour,
   tm_mday |-> b.day, tm_mon |-> b.month - 1,
   tm_year |-> IF WLt(b.year, W(kintmin + 1900)) THEN kintmin
               ELSE IF WLt(W(kintmax), WSubS(b.year, 1900)) THEN kintmax
               ELSE WToInt(WSubS(b.year, 1900)),
   tm_wday |-> b.weekday % 7, tm_yday |-> b.yearday - 1,
   tm_isdst |-> IF b.is_dst THEN 1 ELSE 0]

\* The host's strftime(3) in the C locale, for literal text and the
\* conversions %%, %j, %I, %p, %y; what it writes for fmt.
RECURSIVE HostStrftime(_, _)
HostStrftime(fmt, tm) ==
  IF fmt = <<>> THEN <<>>
  ELSE IF Head(fmt) # "%" \/ Len(fmt) = 1
       THEN <<Head(fmt)>> \o HostStrftime(Tail(fmt), tm)
  ELSE (CASE fmt[2] = "%" -> <<"%">>
          [] fmt[2] = "j" -> <<kDigits[(tm.tm_yday + 1) \div 100 + 1]>>
                             \o Format02d((tm.tm_yday + 1) % 100)
          [] fmt[2] = "I" -> Format02d(IF tm.tm_hour % 12 = 0 THEN 12
                                       ELSE tm.tm_hour % 12)
          [] fmt[2] = "p" -> IF tm.tm_hour < 12 THEN Str("AM") ELSE Str("PM")
          [] fmt[2] = "y" -> Format02d(((tm.tm_year % 100) + 100) % 100)
          [] OTHER -> <<"%", fmt[2]>>)
       \o HostStrftime(Tail(Tail(fmt)), tm)

\* Formats a std::tm using strftime(3): appends to out.
FormatTM(result, fmt, tm) == result \o HostStrftime(fmt, tm)

\* The index of the first character from cur on that is not (is) a '%', or
\* end: while (cur != end && *cur != '%') ++cur;
RECURSIVE SkipToPercent(_, _)
SkipToPercent(f, cur) ==
  IF cur # Len(f) + 1 /\ f[cur] # "%" THEN SkipToPercent(f, cur + 1) ELSE cur

\* while (cur != end && *cur == '%') ++cur;
RECURSIVE SkipPercents(_, _)
SkipPercents(f, cur) ==
  IF cur # Len(f) + 1 /\ f[cur] = "%" THEN SkipPercents(f, cur + 1) ELSE cur

\* The formatter is at [pending, cur, result]: what Format has put out and
\* the two cursors into the format.  Flush the pending text before a
\* conversion that starts back characters before cur.
FlushPending(f, st, back, tm) ==
  IF st.cur - back # st.pending
  THEN FormatTM(st.result, Chars(f, st.pending, st.cur - back), tm)
  ELSE st.result

\* The conversions Format handles itself, after a single '%': what each
\* writes.
FormatSimple(c, b, t) ==
  CASE c = "Y" -> Format64(0, b.year)
    [] c = "m" -> Format02d(b.month)
    [] c = "d" -> Format02d(b.day)
    [] c = "e" -> Let(Format02d(b.day), LAMBDA w :
                    IF w[1] = "0" THEN <<" ", w[2]>> ELSE w)
    [] c = "H" -> Format02d(b.hour)
    [] c = "M" -> Format02d(b.minute)
    [] c = "S" -> Format02d(b.second)
    [] c = "z" -> FormatOffset(CDiv(b.offset, 60), NUL)
    [] c = "Z" -> Str(b.abbr)
    [] c = "s" -> Format64(0, ToUnixSeconds(t))

\* while (cp != bp && cp[-1] == '0') --cp;
RECURSIVE TrimZeros(_)
TrimZeros(w) ==
  IF w # <<>> /\ w[Len(w)] = "0" THEN TrimZeros(SubSeq(w, 1, Len(w) - 1))
  ELSE w

\* %E*S without the trimming: always nine digits.
FormatStarS_Untrimmed(b) ==
  Format02d(b.second) \o <<".">> \o Format64(9, b.subsecond)

\* %E*S
FormatStarS(b) ==
  Let(TrimZeros(Format64(9, b.subsecond)), LAMBDA frac :
    Format02d(b.second) \o (IF frac # <<>> THEN <<".">> ELSE <<>>) \o frac)

\* %E4Y written as %Y is: with no padding.
FormatE4Y_Unpadded(b) == Format64(0, b.year)

\* %E4Y
FormatE4Y(b) == Format64(4, b.year)

\* %E#S with the clamp of line 366 one digit late.
FormatDigitsS_ClampedLate(n, b) ==
  IF n > 0
  THEN Let(IF n > kDigits10_64 + 1 THEN kDigits10_64 + 1 ELSE n, LAMBDA n1 :
         Format02d(b.second) \o <<".">>
         \o Format64(n1, IF n1 > 9 THEN MulExp10(b.subsecond, n1 - 9)
                         ELSE DivExp10(b.subsecond, 9 - n1)))
  ELSE Format02d(b.second)

\* %E#S without the scaling of line 368: the nanoseconds padded on the left.
FormatDigitsS_Unscaled(n, b) ==
  IF n > 0
  THEN Let(IF n > kDigits10_64 THEN kDigits10_64 ELSE n, LAMBDA n1 :
         Format02d(b.second) \o <<".">>
         \o Format64(n1, IF n1 > 9 THEN b.subsecond
                         ELSE DivExp10(b.subsecond, 9 - n1)))
  ELSE Format02d(b.second)

\* %E#S for the parsed count n
FormatDigitsS(n, b) ==
  IF n > 0
  THEN Let(IF n > kDigits10_64 THEN kDigits10_64 ELSE n, LAMBDA n1 :
         Format02d(b.second) \o <<".">>
         \o Format64(n1, IF n1 > 9 THEN MulExp10(b.subsecond, n1 - 9)
                         ELSE DivExp10(b.subsecond, 9 - n1)))
  ELSE Format02d(b.second)

(* ParseInt<T>: dp is an index into the NUL-terminated s (or nullptr),     *)
(* kmin the least value of T, v0 the value *vp holds before the call.      *)
(* Returns the new dp and the value of *vp after the call.                 *)

\* ParseIntValue storing the value before it compares it with min and max.
ParseIntValue_StoresUnchecked(r, bp, neg, min, max, kmin, v0) ==
  IF r.dp # bp /\ ~r.erange /\ (neg \/ WCmp(r.value, kmin) # 0)
  THEN IF ~neg \/ WCmp(r.value, W(0)) # 0
       THEN Let(IF ~neg THEN WNeg(r.value) ELSE r.value, LAMBDA value :
              IF WLe(min, value) /\ WLe(value, max)
              THEN [dp |-> r.dp, val |-> value]
              ELSE [dp |-> nullptr, val |-> value])
       ELSE [dp |-> nullptr, val |-> v0]
  ELSE [dp |-> nullptr, val |-> v0]

\* The digit loop: accumulates the value as a negative number.
RECURSIVE ParseIntDigits(_, _, _, _, _)
ParseIntDigits(s, dp, width, value, kmin) ==
  LET d == StrChr(kDigits, CharAt(s, dp)) IN
  IF d < 0 \/ d >= 10 THEN [dp |-> dp, value |-> value, erange |-> FALSE]
  ELSE IF WLt(value, WDivS(kmin, 10))
       THEN [dp |-> dp, value |-> value, erange |-> TRUE]
  ELSE Let(WMulS(value, 10), LAMBDA v10 :
         IF WLt(v10, WAddS(kmin, d))
         THEN [dp |-> dp, value |-> v10, erange |-> TRUE]
         ELSE IF width > 0 /\ width - 1 = 0
              THEN [dp |-> dp + 1, value |-> WSubS(v10, d), erange |-> FALSE]
              ELSE ParseIntDigits(s, dp + 1,
                                  IF width > 0 THEN width - 1 ELSE width,
                                  WSubS(v10, d), kmin))

ParseIntValue(r, bp, neg, min, max, kmin, v0) ==
  IF r.dp # bp /\ ~r.erange /\ (neg \/ WCmp(r.value, kmin) # 0)
  THEN IF ~neg \/ WCmp(r.value, W(0)) # 0
       THEN Let(IF ~neg THEN WNeg(r.value) ELSE r.value, LAMBDA value :
              IF WLe(min, value) /\ WLe(value, max)
              THEN [dp |-> r.dp, val |-> value]
              ELSE [dp |-> nullptr, val |-> v0])
       ELSE [dp |-> nullptr, val |-> v0]
  ELSE [dp |-> nullptr, val |-> v0]

ParseInt(s, dp, width, min, max, kmin, v0) ==
  IF dp = nullptr THEN [dp |-> nullptr, val |-> v0]
  ELSE LET neg == CharAt(s, dp) = "-"
           w1  == IF neg /\ width > 0 THEN width - 1 ELSE width
           bp  == IF ~neg THEN dp
                  ELSE IF width <= 0 \/ width - 1 # 0 THEN dp + 1
                  ELSE nullptr
       IN IF bp = nullptr THEN [dp |-> nullptr, val |-> v0]
          ELSE ParseIntValue(ParseIntDigits(s, bp, w1, W(0), kmin),
                             bp, neg, min, max, kmin, v0)

\* ParseInt<int>, with machine-int arguments and result
ParseIntInt(s, dp, width, min, max, v0) ==
  Let(ParseInt(s, dp, width, W(min), W(max), W(kintmin), W(v0)), LAMBDA r :
    [dp |-> r.dp, val |-> WToInt(r.val)])

(* The loop of Format over [pending, cur, result].                         *)

\* Lines 241-248: move cur to the next percent sign and copy out ordinary
\* pending text.
FormatOrdinary(f, st) ==
  Let(SkipToPercent(f, st.cur), LAMBDA cur :
    IF cur # st.cur /\ st.pending = st.cur
    THEN [pending |-> cur, start |-> cur, cur |-> cur,
          result |-> st.result \o Chars(f, st.pending, cur)]
    ELSE [pending |-> st.pending, start |-> st.cur, cur |-> cur,
          result |-> st.result])

\* Lines 251-264: span the percent signs; copy out one for every pair and a
\* single trailing one.
FormatPercents(f, s1) ==
  Let(SkipPercents(f, s1.cur), LAMBDA cur :
    IF cur # s1.start /\ s1.pending = s1.start
    THEN LET escaped == (cur - s1.pending) \div 2
             pending == s1.pending + escaped * 2
             result  == s1.result
                        \o Chars(f, s1.pending, s1.pending + escaped)
         IN IF pending # cur /\ cur = Len(f) + 1
            THEN [pending |-> pending + 1, percent |-> s1.cur, cur |-> cur,
                  result |-> result \o <<f[pending]>>]
            ELSE [pending |-> pending, percent |-> s1.cur, cur |-> cur,
                  result |-> result]
    ELSE [pending |-> s1.pending, percent |-> s1.cur, cur |-> cur,
          result |-> s1.result])

\* Lines 355-377: possibly %E#S, cur at the first digit.
FormatPrecision(f, st, cur, b, tm) ==
  Let(ParseIntInt(f, cur, 0, 0, 1024, 0), LAMBDA r :
    IF r.dp # nullptr /\ CharAt(f, r.dp) = "S"
    THEN [pending |-> r.dp + 1, cur |-> r.dp + 1,
          result |-> FlushPending(f, [st EXCEPT !.cur = cur], 2, tm)
                     \o FormatDigitsS(r.val, b)]
    ELSE [pending |-> st.pending, cur |-> cur, result |-> st.result])

\* Lines 326-377: the extensions, cur at the character after "%E".
FormatExtension(f, st, cur, b, tm) ==
  LET end == Len(f) + 1
      flushed == FlushPending(f, [st EXCEPT !.cur = cur], 2, tm)
  IN IF f[cur] = "z"
     THEN [pending |-> cur + 1, cur |-> cur + 1,
           result |-> flushed \o FormatOffset(CDiv(b.offset, 60), ":")]
     ELSE IF f[cur] = "*" /\ cur + 1 # end /\ f[cur + 1] = "S"
     THEN [pending |-> cur + 2, cur |-> cur + 2,
           result |-> flushed \o FormatStarS(b)]
     ELSE IF f[cur] = "4" /\ cur + 1 # end /\ f[cur + 1] = "Y"
     THEN [pending |-> cur + 2, cur |-> cur + 2,
           result |-> flushed \o FormatE4Y(b)]
     ELSE IF IsDigit(f[cur]) THEN FormatPrecision(f, st, cur, b, tm)
     ELSE [pending |-> st.pending, cur |-> cur, result |-> st.result]

\* Lines 267-377: what follows an unescaped percent, cur at the character
\* after it.
FormatSpecifier(f, st, b, tm, t) ==
  IF StrChr(Str("YmdeHMSzZs"), f[st.cur]) >= 0
  THEN [pending |-> st.cur + 1, cur |-> st.cur + 1,
        result |-> FlushPending(f, st, 1, tm) \o FormatSimple(f[st.cur], b, t)]
  ELSE IF f[st.cur] # "E" THEN st
  ELSE IF st.cur + 1 = Len(f) + 1 THEN [st EXCEPT !.cur = st.cur + 1]
  ELSE FormatExtension(f, st, st.cur + 1, b, tm)

\* One iteration of the loop of lines 239-378.
FormatStep(f, st, b, tm, t) ==
  Let(FormatPercents(f, FormatOrdinary(f, st)), LAMBDA s2 :
    IF s2.cur = Len(f) + 1 \/ (s2.cur - s2.percent) % 2 = 0
    THEN [pending |-> s2.pending, cur |-> s2.cur, result |-> s2.result]
    ELSE FormatSpecifier(f, [pending |-> s2.pending, cur |-> s2.cur,
                             result |-> s2.result], b, tm, t))

RECURSIVE FormatLoop(_, _, _, _, _)
FormatLoop(f, st, b, tm, t) ==
  IF st.cur # Len(f) + 1 THEN FormatLoop(f, FormatStep(f, st, b, tm, t), b, tm, t)
  ELSE IF Len(f) + 1 # st.pending
       THEN FormatTM(st.result, Chars(f, st.pending, Len(f) + 1), tm)
       ELSE st.result

\* Lines 223-385: Format for the Breakdown bd that BreakTime returned.
FormatBreakdown(fmt, b, t) ==
  FormatLoop(fmt, [pending |-> 1, cur |-> 1, result |-> <<>>], b, ToTM(b), t)

Format(fmt, t, tz) == FormatBreakdown(fmt, BreakTime(t, tz), t)

(* The scratch buffer of Format: char buf[3 + kDigits10_64], written       *)
(* backwards from ep = buf + sizeof(buf).  Each operator below gives the   *)
(* characters a conversion leaves in buf between the lowest bp it reaches  *)
(* and ep, so its length is the greatest ep - bp of the conversion.        *)

\* sizeof(buf)
ScratchSize == 3 + kDigits10_64

\* The simple conversions; %Z appends bd.abbr and leaves buf alone.
ScratchSimple(c, b, t) == IF c = "Z" THEN <<>> ELSE FormatSimple(c, b, t)

\* %E*S: Format64 writes all nine digits at ep; the zeros are trimmed by
\* moving cp and stay in buf.
ScratchStarS(b) ==
  Let(Format64(9, b.subsecond), LAMBDA w :
    Format02d(b.second) \o (IF TrimZeros(w) # <<>> THEN <<".">> ELSE <<>>)
    \o w)

\* Lines 355-377: possibly %E#S, cur at the first digit.
ScratchPrecision(f, cur, b) ==
  Let(ParseIntInt(f, cur, 0, 0, 1024, 0), LAMBDA r :
    IF r.dp # nullptr /\ CharAt(f, r.dp) = "S" THEN FormatDigitsS(r.val, b)
    ELSE <<>>)

\* Lines 326-377: the extensions, cur at the character after "%E".
ScratchExtension(f, cur, b) ==
  IF f[cur] = "z" THEN FormatOffset(CDiv(b.offset, 60), ":")
  ELSE IF f[cur] = "*" /\ cur + 1 # Len(f) + 1 /\ f[cur + 1] = "S"
  THEN ScratchStarS(b)
  ELSE IF f[cur] = "4" /\ cur + 1 # Len(f) + 1 /\ f[cur + 1] = "Y"
  THEN FormatE4Y(b)
  ELSE IF IsDigit(f[cur]) THEN ScratchPrecision(f, cur, b)
  ELSE <<>>

\* Lines 267-377: what follows an unescaped percent.
ScratchSpecifier(f, st, b, t) ==
  IF StrChr(Str("YmdeHMSzZs"), f[st.cur]) >= 0
  THEN ScratchSimple(f[st.cur], b, t)
  ELSE IF f[st.cur] # "E" \/ st.cur + 1 = Len(f) + 1 THEN <<>>
  ELSE ScratchExtension(f, st.cur + 1, b)

\* What one iteration of the loop of lines 239-378 writes into buf.
ScratchStep(f, st, b, t) ==
  Let(FormatPercents(f, FormatOrdinary(f, st)), LAMBDA s2 :
    IF s2.cur = Len(f) + 1 \/ (s2.cur - s2.percent) % 2 = 0 THEN <<>>
    ELSE ScratchSpecifier(f, s2, b, t))

(* The readers of cctz_fmt.cc.  Each takes the index dp into the           *)
(* NUL-terminated s (or nullptr) and the value its out parameter holds,    *)
(* and returns the new dp and the value the out parameter holds after.     *)

\* while (std::isspace(*p)) ++p;
RECURSIVE SkipSpace(_, _)
SkipSpace(s, p) == IF IsSpace(CharAt(s, p)) THEN SkipSpace(s, p + 1) ELSE p

\* Lines 394-403: after the sign, dp at the first hour digit.
ParseOffsetDigits(s, dp, sep, sign, offset) ==
  Let(ParseIntInt(s, dp, 2, 0, 23, 0), LAMBDA h :
    IF h.dp # nullptr /\ h.dp - dp = 2
    THEN Let(IF sep # NUL /\ CharAt(s, h.dp) = sep THEN h.dp + 1 ELSE h.dp,
             LAMBDA ap :
         Let(ParseIntInt(s, ap, 2, 0, 59, 0), LAMBDA m :
           [dp |-> IF m.dp # nullptr /\ m.dp - ap = 2 THEN m.dp ELSE h.dp,
            offset |-> IF sign = "-"
                       THEN 0 - (((h.val * 60) + m.val) * 60)
                       ELSE ((h.val * 60) + m.val) * 60]))
    ELSE [dp |-> nullptr, offset |-> offset])

ParseOffset(s, dp, sep, offset) ==
  IF dp = nullptr THEN [dp |-> nullptr, offset |-> offset]
  ELSE IF CharAt(s, dp) \in {"+", "-"}
       THEN ParseOffsetDigits(s, dp + 1, sep, CharAt(s, dp), offset)
       ELSE [dp |-> nullptr, offset |-> offset]

RECURSIVE ParseZoneChars(_, _, _)
ParseZoneChars(s, dp, zn) ==
  IF CharAt(s, dp) # NUL /\ ~IsSpace(CharAt(s, dp))
  THEN ParseZoneChars(s, dp + 1, zn \o <<s[dp]>>)
  ELSE [dp |-> IF zn = <<>> THEN nullptr ELSE dp, zone |-> zn]

ParseZone(s, dp) ==
  IF dp = nullptr THEN [dp |-> nullptr, zone |-> <<>>]
  ELSE ParseZoneChars(s, dp, <<>>)

\* The digit loop of ParseSubSeconds: at most 9 digits count.
RECURSIVE ParseSubSecondsDigits(_, _, _, _)
ParseSubSecondsDigits(s, dp, v, exp) ==
  LET d == StrChr(kDigits, CharAt(s, dp)) IN
  IF d < 0 \/ d >= 10 THEN [dp |-> dp, v |-> v, exp |-> exp]
  ELSE IF exp < 9 THEN ParseSubSecondsDigits(s, dp + 1, (v * 10) + d, exp + 1)
  ELSE ParseSubSecondsDigits(s, dp + 1, v, exp)

\* ParseSubSeconds taking the digits as a count of nanoseconds, whatever
\* their number.
ParseSubSeconds_Unscaled(s, dp, subseconds) ==
  IF dp = nullptr THEN [dp |-> nullptr, subseconds |-> subseconds]
  ELSE IF CharAt(s, dp) # "." THEN [dp |-> dp, subseconds |-> subseconds]
  ELSE Let(ParseSubSecondsDigits(s, dp + 1, 0, 0), LAMBDA r :
         IF r.dp # dp + 1
         THEN [dp |-> r.dp, subseconds |-> W(r.v)]
         ELSE [dp |-> nullptr, subseconds |-> subseconds])

ParseSubSeconds(s, dp, subseconds) ==
  IF dp = nullptr THEN [dp |-> nullptr, subseconds |-> subseconds]
  ELSE IF CharAt(s, dp) # "." THEN [dp |-> dp, subseconds |-> subseconds]
  ELSE Let(ParseSubSecondsDigits(s, dp + 1, 0, 0), LAMBDA r :
         IF r.dp # dp + 1
         THEN [dp |-> r.dp, subseconds |-> W(r.v * (10 ^ (9 - r.exp)))]
         ELSE [dp |-> nullptr, subseconds |-> subseconds])

(* The host's strptime(3) in the C locale, for the conversions %%, %H, %I, *)
(* %M, %S, %p, %j, %R, %T, %r, %OH and %OI, white space and literal text.  *)
(* hs is what strptime remembers during one call: whether a 12-hour hour   *)
(* and a PM marker were matched.  Any other conversion is rejected.        *)

RECURSIVE HostDigits(_, _, _, _)
HostDigits(s, dp, n, val) ==
  IF n > 0 /\ IsDigit(CharAt(s, dp))
  THEN HostDigits(s, dp + 1, n - 1, (val * 10) + StrChr(kDigits, s[dp]))
  ELSE [dp |-> dp, val |-> val]

\* A number of at most n digits in from..to, after optional white space.
HostNumber(s, dp, from, to, n) ==
  Let(SkipSpace(s, dp), LAMBDA p :
    IF ~IsDigit(CharAt(s, p)) THEN [dp |-> nullptr, val |-> 0]
    ELSE Let(HostDigits(s, p, n, 0), LAMBDA r :
           IF r.val < from \/ r.val > to THEN [dp |-> nullptr, val |-> 0]
           ELSE r))

ToUpper(c) ==
  IF StrChr(Str("abcdefghijklmnopqrstuvwxyz"), c) \in 0..25
  THEN Str("ABCDEFGHIJKLMNOPQRSTUVWXYZ")[StrChr(Str("abcdefghijklmnopqrstuvwxyz"), c) + 1]
  ELSE c

\* Does s at dp start with word, whatever the case of its letters?
HostMatch(s, dp, word) ==
  \A i \in 1..Len(word) : ToUpper(CharAt(s, dp + i - 1)) = word[i]

\* The format a composite conversion stands for.
HostExpansion(c) ==
  CASE c = "R" -> Str("%H:%M")
    [] c = "T" -> Str("%H:%M:%S")
    [] c = "r" -> Str("%I:%M:%S %p")

RECURSIVE HostStrptimeFrom(_, _, _, _, _, _)
\* One conversion c at dp; k continues with the rest of fmt from index next.
HostConversion(s, dp, c, fmt, next, r) ==
  CASE c = "%" ->
         IF CharAt(s, dp) = "%"
         THEN HostStrptimeFrom(s, dp + 1, fmt, next, r.tm, r.hs)
         ELSE [r EXCEPT !.dp = nullptr]
    [] c \in {"H", "M", "S", "I", "j"} ->
         Let(CASE c = "H" -> HostNumber(s, dp, 0, 23, 2)
               [] c = "M" -> HostNumber(s, dp, 0, 59, 2)
               [] c = "S" -> HostNumber(s, dp, 0, 61, 2)
               [] c = "I" -> HostNumber(s, dp, 1, 12, 2)
               [] c = "j" -> HostNumber(s, dp, 1, 366, 3), LAMBDA n :
           IF n.dp = nullptr THEN [r EXCEPT !.dp = nullptr]
           ELSE HostStrptimeFrom(s, n.dp, fmt, next,
                  CASE c = "H" -> [r.tm EXCEPT !.tm_hour = n.val]
                    [] c = "M" -> [r.tm EXCEPT !.tm_min = n.val]
                    [] c = "S" -> [r.tm EXCEPT !.tm_sec = n.val]
                    [] c = "I" -> [r.tm EXCEPT !.tm_hour = n.val % 12]
                    [] c = "j" -> [r.tm EXCEPT !.tm_yday = n.val - 1],
                  IF c = "I" THEN [r.hs EXCEPT !.have_I = TRUE] ELSE r.hs))
    [] c = "p" ->
         IF HostMatch(s, dp, Str("AM"))
         THEN HostStrptimeFrom(s, dp + 2, fmt, next, r.tm,
                               [r.hs EXCEPT !.is_pm = FALSE])
         ELSE IF HostMatch(s, dp, Str("PM"))
         THEN HostStrptimeFrom(s, dp + 2, fmt, next, r.tm,
                               [r.hs EXCEPT !.is_pm = TRUE])
         ELSE [r EXCEPT !.dp = nullptr]
    [] c \in {"R", "T", "r"} ->
         Let(HostStrptimeFrom(s, dp, HostExpansion(c), 1, r.tm, r.hs),
             LAMBDA e :
           IF e.dp = nullptr THEN e
           ELSE HostStrptimeFrom(s, e.dp, fmt, next, e.tm, e.hs))
    [] OTHER -> [r EXCEPT !.dp = nullptr]

HostStrptimeFrom(s, dp, fmt, i, tm, hs) ==
  IF i > Len(fmt) THEN [dp |-> dp, tm |-> tm, hs |-> hs]
  ELSE IF IsSpace(fmt[i])
       THEN HostStrptimeFrom(s, SkipSpace(s, dp), fmt, i + 1, tm, hs)
  ELSE IF fmt[i] # "%"
       THEN IF CharAt(s, dp) = fmt[i]
            THEN HostStrptimeFrom(s, dp + 1, fmt, i + 1, tm, hs)
            ELSE [dp |-> nullptr, tm |-> tm, hs |-> hs]
  ELSE IF CharAt(fmt, i + 1) = "O" /\ CharAt(fmt, i + 2) \in {"H", "I"}
       THEN HostConversion(s, dp, fmt[i + 2], fmt, i + 3,
                           [dp |-> dp, tm |-> tm, hs |-> hs])
  ELSE HostConversion(s, dp, CharAt(fmt, i + 1), fmt, i + 2,
                      [dp |-> dp, tm |-> tm, hs |-> hs])

\* strptime(dp, fmt, tm): the new dp and the std::tm it leaves.
HostStrptime(s, dp, fmt, tm) ==
  Let(HostStrptimeFrom(s, dp, fmt, 1, tm, [have_I |-> FALSE, is_pm |-> FALSE]),
      LAMBDA r :
    [dp |-> r.dp,
     tm |-> IF r.dp # nullptr /\ r.hs.have_I /\ r.hs.is_pm
            THEN [r.tm EXCEPT !.tm_hour = @ + 12] ELSE r.tm])

\* Parses a string into a std::tm using strptime(3).
ParseTM(s, dp, fmt, tm) ==
  IF dp # nullptr THEN HostStrptime(s, dp, fmt, tm)
  ELSE [dp |-> nullptr, tm |-> tm]

(* Parse.  The scan is at st: the cursors data (into input, or nullptr)    *)
(* and fmt (into format), and the locals of Parse.                         *)

\* Lines 476-504: the locals before the loop.
ParseStart(inp) ==
  [data |-> SkipSpace(inp, 1), fmt |-> 1,
   tm |-> [tm_sec |-> 0, tm_min |-> 0, tm_hour |-> 0, tm_mday |-> 1,
           tm_mon |-> 1 - 1, tm_year |-> 1970 - 1900, tm_wday |-> 4,
           tm_yday |-> 0, tm_isdst |-> 0],
   subseconds |-> DurationZero, offset |-> kintmin, zone |-> Str("UTC"),
   twelve_hour |-> FALSE, afternoon |-> FALSE,
   saw_precent_s |-> FALSE, percent_s_time |-> W(0)]

\* An int field of tm read by ParseInt: the field is stored (less the
\* excess) when ParseInt succeeds.
ParseField(inp, st, fmt, width, min, max, field, excess) ==
  Let(ParseIntInt(inp, st.data, width, min, max, st.tm[field]), LAMBDA r :
    [st EXCEPT !.data = r.dp, !.fmt = fmt,
               !.tm[field] = IF r.dp # nullptr THEN r.val - excess ELSE r.val])

\* Lines 628-643: the host parses the specifier format[percent .. fmt).
ParseSpecifier(fs, inp, st, percent, fmt) ==
  Let(ParseTM(inp, st.data, Chars(fs, percent, fmt), st.tm), LAMBDA r :
    [st EXCEPT
       !.data = r.dp, !.fmt = fmt, !.tm = r.tm,
       !.afternoon =
          IF Chars(fs, percent, fmt) = Str("%p") /\ r.dp # nullptr
          THEN ParseTM(<<"1">> \o Chars(inp, st.data, r.dp), 1, Str("%I%p"),
                       [tm_sec |-> 0, tm_min |-> 0, tm_hour |-> 0,
                        tm_mday |-> 0, tm_mon |-> 0, tm_year |-> 0,
                        tm_wday |-> 0, tm_yday |-> 0, tm_isdst |-> 0]
                      ).tm.tm_hour = 13
          ELSE @])

\* Lines 608-611: seconds and, for n > 0, subseconds.
ParseSeconds(inp, st, fmt, fraction) ==
  Let(ParseIntInt(inp, st.data, 2, 0, 60, st.tm.tm_sec), LAMBDA r :
    IF fraction
    THEN Let(ParseSubSeconds(inp, r.dp, st.subseconds), LAMBDA f :
           [st EXCEPT !.data = f.dp, !.fmt = fmt, !.tm.tm_sec = r.val,
                      !.subseconds = f.subseconds])
    ELSE [st EXCEPT !.data = r.dp, !.fmt = fmt, !.tm.tm_sec = r.val])

\* Lines 591-603: %E4Y, exactly four characters.
ParseE4Y(inp, st, fmt) ==
  Let(ParseIntInt(inp, st.data, 4, -999, 9999, st.tm.tm_year), LAMBDA r :
    IF r.dp # nullptr
    THEN IF r.dp - st.data = 4
         THEN [st EXCEPT !.data = r.dp, !.fmt = fmt,
                         !.tm.tm_year = r.val - 1900]
         ELSE [st EXCEPT !.data = nullptr, !.fmt = fmt, !.tm.tm_year = r.val]
    ELSE [st EXCEPT !.data = nullptr, !.fmt = fmt])

\* Lines 617-620: the rest of case 'E', fmt at the character after "%E".
ParseOtherE(fs, inp, st, percent, fmt) ==
  ParseSpecifier(fs, inp,
                 IF CharAt(fs, fmt) \in {"c", "X"}
                 THEN [st EXCEPT !.twelve_hour = FALSE] ELSE st,
                 percent,
                 IF CharAt(fs, fmt) # NUL THEN fmt + 1 ELSE fmt)

\* Lines 574-620: case 'E', fmt at the character after "%E".
ParseExtension(fs, inp, st, percent, fmt) ==
  IF CharAt(fs, fmt) = "z"
  THEN IF CharAt(inp, st.data) = "Z"
       THEN [st EXCEPT !.offset = 0, !.data = st.data + 1, !.fmt = fmt + 1]
       ELSE Let(ParseOffset(inp, st.data, ":", st.offset), LAMBDA r :
              [st EXCEPT !.data = r.dp, !.offset = r.offset, !.fmt = fmt + 1])
  ELSE IF CharAt(fs, fmt) = "*" /\ CharAt(fs, fmt + 1) = "S"
  THEN ParseSeconds(inp, st, fmt + 2, TRUE)
  ELSE IF CharAt(fs, fmt) = "4" /\ CharAt(fs, fmt + 1) = "Y"
  THEN ParseE4Y(inp, st, fmt + 2)
  ELSE IF IsDigit(CharAt(fs, fmt))
  THEN Let(ParseIntInt(fs, fmt, 0, 0, 1024, 0), LAMBDA n :
         IF n.dp # nullptr /\ CharAt(fs, n.dp) = "S"
         THEN ParseSeconds(inp, st, n.dp + 1, n.val > 0)
         ELSE ParseOtherE(fs, inp, st, percent, fmt))
  ELSE ParseOtherE(fs, inp, st, percent, fmt)

\* Lines 529-643: the switch on the character c after a '%'; fmt is the
\* index after c.
ParseDirective(fs, inp, st, percent, c, fmt) ==
  CASE c = "Y" -> ParseField(inp, st, fmt, 0, kintmin + 1900, kintmax,
                             "tm_year", 1900)
    [] c = "m" -> ParseField(inp, st, fmt, 2, 1, 12, "tm_mon", 1)
    [] c = "d" -> ParseField(inp, st, fmt, 2, 1, 31, "tm_mday", 0)
    [] c = "H" -> ParseField(inp, [st EXCEPT !.twelve_hour = FALSE], fmt,
                             2, 0, 23, "tm_hour", 0)
    [] c = "M" -> ParseField(inp, st, fmt, 2, 0, 59, "tm_min", 0)
    [] c = "S" -> ParseField(inp, st, fmt, 2, 0, 60, "tm_sec", 0)
    [] c \in {"I", "r"} ->
         ParseSpecifier(fs, inp, [st EXCEPT !.twelve_hour = TRUE],
                        percent, fmt)
    [] c \in {"R", "T", "c", "X"} ->
         ParseSpecifier(fs, inp, [st EXCEPT !.twelve_hour = FALSE],
                        percent, fmt)
    [] c = "z" -> Let(ParseOffset(inp, st.data, NUL, st.offset), LAMBDA r :
                    [st EXCEPT !.data = r.dp, !.offset = r.offset,
                               !.fmt = fmt])
    [] c = "Z" -> Let(ParseZone(inp, st.data), LAMBDA r :
                    [st EXCEPT !.data = r.dp, !.zone = r.zone, !.fmt = fmt])
    [] c = "s" -> Let(ParseInt(inp, st.data, 0, INT64_MIN, INT64_MAX,
                               INT64_MIN, st.percent_s_time), LAMBDA r :
                    [st EXCEPT !.data = r.dp, !.fmt = fmt,
                               !.percent_s_time = r.val,
                               !.saw_precent_s = (@ \/ r.dp # nullptr)])
    [] c = "E" -> ParseExtension(fs, inp, st, percent, fmt)
    [] c = "O" ->
         ParseSpecifier(fs, inp,
                        IF CharAt(fs, fmt) = "H"
                        THEN [st EXCEPT !.twelve_hour = FALSE]
                        ELSE IF CharAt(fs, fmt) = "I"
                        THEN [st EXCEPT !.twelve_hour = TRUE] ELSE st,
                        percent,
                        IF CharAt(fs, fmt) # NUL THEN fmt + 1 ELSE fmt)
    [] OTHER -> ParseSpecifier(fs, inp, st, percent, fmt)

\* One iteration of the loop of lines 507-644, taken while
\* data != nullptr && *fmt != '\0'.
ParseStep(fs, inp, st) ==
  IF IsSpace(fs[st.fmt])
  THEN [st EXCEPT !.data = SkipSpace(inp, st.data),
                  !.fmt = SkipSpace(fs, st.fmt + 1)]
  ELSE IF fs[st.fmt] # "%"
  THEN IF CharAt(inp, st.data) = fs[st.fmt]
       THEN [st EXCEPT !.data = st.data + 1, !.fmt = st.fmt + 1]
       ELSE [st EXCEPT !.data = nullptr]
  ELSE IF CharAt(fs, st.fmt + 1) = NUL
  THEN [st EXCEPT !.data = nullptr, !.fmt = st.fmt + 1]
  ELSE ParseDirective(fs, inp, st, st.fmt, fs[st.fmt + 1],
                      st.fmt + 2)

ParseScanning(fs, st) ==
  st.data # nullptr /\ CharAt(fs, st.fmt) # NUL

RECURSIVE ParseScan(_, _, _)
ParseScan(fs, inp, st) ==
  IF ParseScanning(fs, st)
  THEN ParseScan(fs, inp, ParseStep(fs, inp, st))
  ELSE st

\* Lines 682-687: int64_t year = tm.tm_year, then 1900 more unless that
\* would pass INT64_MAX.
ParseYear(tm_year) ==
  IF WLt(WSubS(INT64_MAX, 1900), W(tm_year)) THEN INT64_MAX
  ELSE WAddS(W(tm_year), 1900)

\* ParseConvert storing the instant before it looks at the normalized flag.
ParseConvert_StoresBeforeCheck(st, offset, ptz, tpp) ==
  Let(IF st.tm.tm_sec = 60
      THEN [sec |-> st.tm.tm_sec - 1, offset |-> offset - 1,
            subseconds |-> DurationZero]
      ELSE [sec |-> st.tm.tm_sec, offset |-> offset,
            subseconds |-> st.subseconds], LAMBDA leap :
  Let(MakeTimeInfo(ParseYear(st.tm.tm_year), st.tm.tm_mon + 1,
                   st.tm.tm_mday, st.tm.tm_hour, st.tm.tm_min, leap.sec, ptz),
      LAMBDA info :
    [ok |-> ~info.normalized,
     tp |-> WAdd(WSub(info.pre, Seconds(W(leap.offset))), leap.subseconds)]))

\* ParseConvert keeping the fraction of a leap second.
ParseConvert_KeepsFraction(st, offset, ptz, tpp) ==
  Let(IF st.tm.tm_sec = 60
      THEN [sec |-> st.tm.tm_sec - 1, offset |-> offset - 1,
            subseconds |-> st.subseconds]
      ELSE [sec |-> st.tm.tm_sec, offset |-> offset,
            subseconds |-> st.subseconds], LAMBDA leap :
  Let(MakeTimeInfo(ParseYear(st.tm.tm_year), st.tm.tm_mon + 1,
                   st.tm.tm_mday, st.tm.tm_hour, st.tm.tm_min, leap.sec, ptz),
      LAMBDA info :
    IF info.normalized THEN [ok |-> FALSE, tp |-> tpp]
    ELSE [ok |-> TRUE,
          tp |-> WAdd(WSub(info.pre, Seconds(W(leap.offset))),
                      leap.subseconds)]))

\* Lines 665-695: the civil fields become an instant.  Returns what Parse
\* returns and what *tpp holds after the call.
ParseConvert(st, offset, ptz, tpp) ==
  Let(IF st.tm.tm_sec = 60
      THEN [sec |-> st.tm.tm_sec - 1, offset |-> offset - 1,
            subseconds |-> DurationZero]
      ELSE [sec |-> st.tm.tm_sec, offset |-> offset,
            subseconds |-> st.subseconds], LAMBDA leap :
  Let(MakeTimeInfo(ParseYear(st.tm.tm_year), st.tm.tm_mon + 1,
                   st.tm.tm_mday, st.tm.tm_hour, st.tm.tm_min, leap.sec, ptz),
      LAMBDA info :
    IF info.normalized THEN [ok |-> FALSE, tp |-> tpp]
    ELSE [ok |-> TRUE,
          tp |-> WAdd(WSub(info.pre, Seconds(W(leap.offset))),
                      leap.subseconds)]))

\* ParseFinish shifting the %s time by a parsed offset.
ParseFinish_EpochLessOffset(inp, st0, tz, tpp) ==
  Let(IF st0.twelve_hour /\ st0.afternoon /\ st0.tm.tm_hour < 12
      THEN [st0 EXCEPT !.tm.tm_hour = @ + 12] ELSE st0, LAMBDA st :
    IF st.data = nullptr THEN [ok |-> FALSE, tp |-> tpp]
    ELSE IF CharAt(inp, SkipSpace(inp, st.data)) # NUL
    THEN [ok |-> FALSE, tp |-> tpp]
    ELSE IF st.saw_precent_s
    THEN [ok |-> TRUE,
          tp |-> IF st.offset # kintmin
                 THEN WSub(Seconds(st.percent_s_time), Seconds(W(st.offset)))
                 ELSE Seconds(st.percent_s_time)]
    ELSE IF st.offset # kintmin
    THEN ParseConvert(st, st.offset, UTCTimeZone, tpp)
    ELSE ParseConvert(st, 0, tz, tpp))

\* ParseFinish reading the civil fields in the zone passed, offset or not.
ParseFinish_KeepsZone(inp, st0, tz, tpp) ==
  Let(IF st0.twelve_hour /\ st0.afternoon /\ st0.tm.tm_hour < 12
      THEN [st0 EXCEPT !.tm.tm_hour = @ + 12] ELSE st0, LAMBDA st :
    IF st.data = nullptr THEN [ok |-> FALSE, tp |-> tpp]
    ELSE IF CharAt(inp, SkipSpace(inp, st.data)) # NUL
    THEN [ok |-> FALSE, tp |-> tpp]
    ELSE IF st.saw_precent_s
    THEN [ok |-> TRUE, tp |-> Seconds(st.percent_s_time)]
    ELSE IF st.offset # kintmin
    THEN ParseConvert(st, st.offset, tz, tpp)
    ELSE ParseConvert(st, 0, tz, tpp))

\* ParseFinish moving any hour below 12 into the afternoon after a PM,
\* 24-hour ones as well.
ParseFinish_ShiftsAnyHour(inp, st0, tz, tpp) ==
  Let(IF st0.afternoon /\ st0.tm.tm_hour < 12
      THEN [st0 EXCEPT !.tm.tm_hour = @ + 12] ELSE st0, LAMBDA st :
    IF st.data = nullptr THEN [ok |-> FALSE, tp |-> tpp]
    ELSE IF CharAt(inp, SkipSpace(inp, st.data)) # NUL
    THEN [ok |-> FALSE, tp |-> tpp]
    ELSE IF st.saw_precent_s
    THEN [ok |-> TRUE, tp |-> Seconds(st.percent_s_time)]
    ELSE IF st.offset # kintmin
    THEN ParseConvert(st, st.offset, UTCTimeZone, tpp)
    ELSE ParseConvert(st, 0, tz, tpp))

\* ParseFinish without the test of line 657: text may be left over.
ParseFinish_IgnoresRest(inp, st0, tz, tpp) ==
  Let(IF st0.twelve_hour /\ st0.afternoon /\ st0.tm.tm_hour < 12
      THEN [st0 EXCEPT !.tm.tm_hour = @ + 12] ELSE st0, LAMBDA st :
    IF st.data = nullptr THEN [ok |-> FALSE, tp |-> tpp]
    ELSE IF st.saw_precent_s
    THEN [ok |-> TRUE, tp |-> Seconds(st.percent_s_time)]
    ELSE IF st.offset # kintmin
    THEN ParseConvert(st, st.offset, UTCTimeZone, tpp)
    ELSE ParseConvert(st, 0, tz, tpp))

\* Lines 646-696: after the loop.
ParseFinish(inp, st0, tz, tpp) ==
  Let(IF st0.twelve_hour /\ st0.afternoon /\ st0.tm.tm_hour < 12
      THEN [st0 EXCEPT !.tm.tm_hour = @ + 12] ELSE st0, LAMBDA st :
    IF st.data = nullptr THEN [ok |-> FALSE, tp |-> tpp]
    ELSE IF CharAt(inp, SkipSpace(inp, st.data)) # NUL
    THEN [ok |-> FALSE, tp |-> tpp]
    ELSE IF st.saw_precent_s
    THEN [ok |-> TRUE, tp |-> Seconds(st.percent_s_time)]
    ELSE IF st.offset # kintmin
    THEN ParseConvert(st, st.offset, UTCTimeZone, tpp)
    ELSE ParseConvert(st, 0, tz, tpp))

\* Parse(format, input, tz, tpp): the value returned and *tpp afterwards,
\* tpp being what *tpp held before.
Parse(fs, inp, tz, tpp) ==
  ParseFinish(inp, ParseScan(fs, inp, ParseStart(inp)), tz, tpp)

(* The year arithmetic of MakeTimeInfo's else branch at the width of       *)
(* int64_t.  MakeTimeUTC above computes with exact integers, which is what *)
(* the code computes as long as no sum leaves the range of int64_t.  Where *)
(* one does, the signed overflow is undefined behaviour: the add           *)
(* instruction of the usual build wraps, a build with trapping arithmetic  *)
(* aborts.  The operators below follow lines 128-151 over records          *)
(* [year, mon, day, aborted] and return the set of states the build can    *)
(* produce.                                                                *)

\* 2^64
TwoTo64 == [neg |-> FALSE, mag |-> <<1616, 955, 737, 6744, 1844>>]

InInt64(x) == WLe(INT64_MIN, x) /\ WLe(x, INT64_MAX)

Wrap64(x) ==
  IF WLt(INT64_MAX, x) THEN WSub(x, TwoTo64)
  ELSE IF WLt(x, INT64_MIN) THEN WAdd(x, TwoTo64)
  ELSE x

\* year += k
YearPlus(o, k) ==
  IF o.aborted THEN {o}
  ELSE Let(WAdd(o.year, W(k)), LAMBDA sum :
         IF InInt64(sum) THEN {[o EXCEPT !.year = sum]}
         ELSE {[o EXCEPT !.year = Wrap64(sum)], [o EXCEPT !.aborted = TRUE]})

\* while (day > year_len) { day -= year_len; year += 1; ... }
RECURSIVE YearsForward64(_)
YearsForward64(o) ==
  IF o.aborted \/ o.day <= kDaysPerYear(IsLeap(o.year)) THEN {o}
  ELSE UNION {YearsForward64(p) :
                p \in YearPlus([o EXCEPT !.day =
                                  @ - kDaysPerYear(IsLeap(o.year))], 1)}

\* while (day <= 0) { year -= 1; day += kDaysPerYear[IsLeap(year)]; }
RECURSIVE YearsBackward64(_)
YearsBackward64(o) ==
  IF o.aborted \/ o.day > 0 THEN {o}
  ELSE UNION {IF p.aborted THEN {p}
              ELSE YearsBackward64([p EXCEPT !.day =
                                      @ + kDaysPerYear(IsLeap(p.year))]) :
                p \in YearPlus(o, -1)}

\* while (day > kDaysPerMonth[leap_year][mon]) { ... }
RECURSIVE MonthsForward64(_)
MonthsForward64(o) ==
  IF o.aborted \/ o.day <= kDaysPerMonth(IsLeap(o.year), o.mon) THEN {o}
  ELSE Let([o EXCEPT !.day = @ - kDaysPerMonth(IsLeap(o.year), o.mon)],
           LAMBDA p :
         IF p.mon + 1 > 12
         THEN UNION {MonthsForward64(q) :
                       q \in YearPlus([p EXCEPT !.mon = 1], 1)}
         ELSE MonthsForward64([p EXCEPT !.mon = @ + 1]))

\* The states of S continued by F
Continued(S, F(_)) == UNION {F(o) : o \in S}

\* Lines 128-151: the year, month and day DayOrdinal is called with, for
\* the day already holding the carry of the hours.
NormalizeDate64(year, mon, day) ==
  Let(NormalizeField(12, mon - 1, FALSE), LAMBDA n4 :
    Continued(
      Continued(
        Continued(
          Continued(
            YearPlus([year |-> year, mon |-> n4.val + 1, day |-> day,
                      aborted |-> FALSE], n4.carry),
            LAMBDA o : YearPlus(o, IF o.mon > 2 THEN 1 ELSE 0)),
          LAMBDA o : Continued(YearsForward64(o), YearsBackward64)),
        LAMBDA o : YearPlus(o, IF o.mon > 2 THEN -1 ELSE 0)),
      MonthsForward64))

---------------------------------------------------------------------------
(* The calling program.  It draws its inputs when it starts and then calls *)
(* the library; pc records how far it got.                                 *)

NoValue == <<>>

\* The largest year of the civil round trip
MaxYear == 9999

\* How far beyond its natural range a month, hour, minute or second is taken
FarOut == 100000

\* How far beyond its natural range a day of the month is taken
FarDay == 4000

Years ==
  {0 - MaxYear, -401, -400, -100, -4, -1, 0, 1, 4, 100, 1600, 1900, 1969,
   1970, 1972, 2000, 2013, 2100, MaxYear}

CanonicalTimes == {<<0, 0, 0>>, <<8, 30, 0>>, <<23, 59, 59>>}

IntIsLeap(y) == y % 4 = 0 /\ (y % 100 # 0 \/ y % 400 = 0)

IntMonthLength(y, m) ==
  IF m = 2 THEN (IF IntIsLeap(y) THEN 29 ELSE 28)
  ELSE IF m \in {4, 6, 9, 11} THEN 30 ELSE 31

\* Civil times with the month and the time of day in range, and a day of the
\* month in 0 .. 32: in range or just outside it.
NearCivil ==
  {[year |-> y, mon |-> m, day |-> d, hour |-> t[1], min |-> t[2], sec |-> t[3]] :
     y \in Years, m \in 1..12,
     d \in {0, 1, 2, 15, 28, 29, 30, 31, 32}, t \in CanonicalTimes}

WideCivil ==
  {[year |-> y, mon |-> m, day |-> d, hour |-> t[1], min |-> t[2], sec |-> t[3]] :
     y \in {-400, -1, 0, 1900, 1970, 2000, 2013, MaxYear},
     m \in {0 - FarOut, -25, -11, -1, 0, 2, 3, 13, 14, 25},
     d \in {0 - FarDay, -366, -365, -1, 0, 31, 60, 366, 367, 731, 1462, FarDay},
     t \in {<<0, 0, 0>>, <<-1, -1, -1>>, <<24, 60, 60>>, <<23, 59, 60>>,
            <<100, 0 - FarOut, FarOut>>, <<-25, 1000, -86401>>}}

CivilInputs == NearCivil \cup WideCivil

InitCivil ==
  /\ pc = "start"
  /\ civil \in CivilInputs
  /\ zone = UTCTimeZone
  /\ format = NoValue
  /\ input = NoValue
  /\ plan = NoValue
  /\ src = NoValue
  /\ tp = NoValue
  /\ ti = NoValue
  /\ bd = NoValue
  /\ out = NoValue
  /\ ok = FALSE
  /\ scan = NoValue

\* ti = MakeTimeInfo(y, m, d, h, mi, s, zone); the program keeps ti.pre,
\* which is what MakeTime returns.
CallMakeTimeInfo ==
  /\ pc = "start"
  /\ ti' = MakeTimeInfo(W(civil.year), civil.mon, civil.day, civil.hour,
                        civil.min, civil.sec, zone)
  /\ src' = ti'.pre
  /\ pc' = "made"
  /\ UNCHANGED <<scan, civil, zone, format, input, plan, tp, bd, out, ok>>

\* bd = BreakTime(src, zone)
CallBreakTime ==
  /\ pc = "made"
  /\ bd' = BreakTime(src, zone)
  /\ pc' = "broken"
  /\ UNCHANGED <<scan, civil, zone, format, input, plan, src, tp, ti, out, ok>>

NextCivil == CallMakeTimeInfo \/ CallBreakTime

SpecCivil == InitCivil /\ [][NextCivil]_vars

---------------------------------------------------------------------------
(* A program that formats an instant and parses what it got.               *)

\* The format that includes %Ez and every civil field
RFC3339_full == "%Y-%m-%d %H:%M:%E*S %Ez"

Formats ==
  {RFC3339_full, "%E4Y", "%Y", "%E4Y-%m-%dT%H:%M:%S%z", "%s", "%H:%M:%E3S",
   "%%%E4Y|%j %e %Z%"}

\* Years of the instants formatted, out to both ends of the years an int
\* tm_year can hold and %Y can read back.
InstantYears == {kintmin + 1900, 0 - MaxYear, -1, 0, 1969, 2013, kintmax}

Subseconds == {0, 1, 5000000, 999999999}

\* The instants formatted: whole seconds at both ends of a year and in a
\* leap day's neighbourhood, with and without a sub-second part.
Instants ==
  {WAddS(MakeTime(W(y), d[1], d[2], d[3], d[4], d[5], UTCTimeZone), ns) :
     y \in InstantYears,
     d \in {<<1, 1, 0, 0, 0>>, <<2, 28, 8, 30, 5>>, <<12, 31, 23, 59, 59>>},
     ns \in Subseconds}

\* Years a Breakdown can carry that this backend's BreakTime does not
\* produce: Breakdown::year is an int64_t.
BreakdownYears ==
  {INT64_MIN, INT64_MAX, W(-12345), W(-1000), W(-999), W(-99), W(-9), W(9),
   W(99), W(999), W(1000), W(9999), W(10000), W(12345)}

Zones == {UTCTimeZone, LocalTimeZone(-28800), LocalTimeZone(19800)}

\* What *tpp holds before Parse is called
Before == Seconds(W(7))

InitFormat ==
  /\ pc = "start"
  /\ src \in Instants
  /\ zone \in {UTCTimeZone, LocalTimeZone(19800)}
  /\ format \in {Str(f) : f \in Formats}
  /\ tp = Before
  /\ civil = NoValue
  /\ input = NoValue
  /\ plan = NoValue
  /\ ti = NoValue
  /\ bd = NoValue
  /\ out = NoValue
  /\ ok = FALSE
  /\ scan = NoValue

\* out = Format(format, src, zone); bd is the Breakdown Format works from.
CallFormat ==
  /\ pc = "start"
  /\ bd' = BreakTime(src, zone)
  /\ out' = Format(format, src, zone)
  /\ pc' = "formatted"
  /\ UNCHANGED <<scan, civil, zone, format, input, plan, src, tp, ti, ok>>

\* Format where the zone's BreakTime is another implementation of
\* TimeZoneIf, returning a year of its own.
CallFormatOfBreakdown ==
  /\ pc = "start"
  /\ \E y \in BreakdownYears :
       bd' = [BreakTime(src, zone) EXCEPT !.year = y]
  /\ out' = FormatBreakdown(format, bd', src)
  /\ pc' = "formatted"
  /\ UNCHANGED <<scan, civil, zone, format, input, plan, src, tp, ti, ok>>

\* ok = Parse(format, out, zone, &tp)
CallParseOfFormatted ==
  /\ pc = "formatted"
  /\ input' = out
  /\ LET r == Parse(format, out, zone, tp)
     IN  ok' = r.ok /\ tp' = r.tp
  /\ pc' = "parsed"
  /\ UNCHANGED <<scan, civil, zone, format, plan, src, ti, bd, out>>

NextFormat == CallFormat \/ CallFormatOfBreakdown \/ CallParseOfFormatted

SpecFormat == InitFormat /\ [][NextFormat]_vars

---------------------------------------------------------------------------
(* The same program formatting seconds: instants with sub-second parts of  *)
(* one to nine digits, and the formats of the seconds.                     *)

\* The largest digit count of %E#S the formats ask for
MaxDigits == 1024

SecondFormats ==
  {"%E*S", "%E0S", "%E1S", "%E3S", "%E03S", "%E8S", "%E9S", "%E10S", "%E17S",
   "%E18S", "%E19S", "%E" \o ToString(MaxDigits) \o "S", "%H:%M:%E3S"}

FineSubseconds ==
  {0, 1, 10, 5000000, 100000000, 120000000, 123456789, 999999990, 999999999}

\* Instants on both sides of the epoch.  2013-01-02 03:04:05 UTC is
\* 1357095845 seconds after it.
SecondInstants ==
  {WAddS(Seconds(W(s)), ns) :
     s \in {-86400, -1, 0, 59, 1357095845}, ns \in FineSubseconds}

InitSeconds ==
  /\ pc = "start"
  /\ src \in SecondInstants
  /\ zone \in {UTCTimeZone, LocalTimeZone(19800)}
  /\ format \in {Str(f) : f \in SecondFormats}
  /\ tp = Before
  /\ civil = NoValue
  /\ input = NoValue
  /\ plan = NoValue
  /\ ti = NoValue
  /\ bd = NoValue
  /\ out = NoValue
  /\ ok = FALSE
  /\ scan = NoValue

NextSeconds == CallFormat \/ CallParseOfFormatted

SpecSeconds == InitSeconds /\ [][NextSeconds]_vars

---------------------------------------------------------------------------
(* The year at the limits of its types: MakeTimeInfo in the UTC zone with  *)
(* years next to INT64_MAX and INT64_MIN, ToTM with years next to the      *)
(* limits of int, and the year Parse makes of a tm_year.                   *)

EdgeYears ==
  {INT64_MIN, WAddS(INT64_MIN, 1), WAddS(INT64_MIN, 2),
   W(kintmin), W(kintmin + 1899), W(kintmin + 1900), W(-1), W(0), W(1970),
   W(kintmax), WAddS(W(kintmax), 1900), WAddS(W(kintmax), 1901),
   WSubS(INT64_MAX, 2), WSubS(INT64_MAX, 1), INT64_MAX}

EdgeMonths == {-12, -11, 0, 1, 2, 3, 12, 13, 25}

EdgeDays == {-400, -365, 0, 1, 28, 31, 32, 366, 367, 800}

TmYears == {kintmin, -1900, 0, 113, kintmax - 1900, kintmax}

\* A Breakdown of the first second of the year
NewYearOf(year) ==
  [year |-> year, month |-> 1, day |-> 1, hour |-> 0, minute |-> 0,
   second |-> 0, subsecond |-> DurationZero, weekday |-> 1, yearday |-> 1,
   is_dst |-> FALSE, offset |-> 0, abbr |-> "UTC"]

InitYears ==
  /\ pc = "start"
  /\ civil \in [year : EdgeYears, mon : EdgeMonths, day : EdgeDays]
  /\ zone = UTCTimeZone
  /\ format = NoValue
  /\ input = NoValue
  /\ plan = NoValue
  /\ src = NoValue
  /\ tp = Before
  /\ ti = NoValue
  /\ bd = NoValue
  /\ out = NoValue
  /\ ok = FALSE
  /\ scan = NoValue

\* MakeTimeInfo(year, mon, day, 0, 0, 0) in the UTC zone, up to the call of
\* DayOrdinal: ti holds the date it is called with, or aborted.
CallMakeTimeInfoAtEdge ==
  /\ pc = "start"
  /\ pc' = "made"
  /\ ti' \in NormalizeDate64(civil.year, civil.mon, civil.day)
  /\ UNCHANGED <<scan, civil, zone, format, input, plan, src, tp, bd, out, ok>>

\* ToTM of a Breakdown of the year
CallToTM ==
  /\ pc = "start"
  /\ civil.mon = 1 /\ civil.day = 1
  /\ pc' = "tm"
  /\ bd' = NewYearOf(civil.year)
  /\ out' = ToTM(bd')
  /\ UNCHANGED <<scan, civil, zone, format, input, plan, src, tp, ti, ok>>

\* Lines 682-687 of Parse for a tm_year
CallParseYear ==
  /\ pc = "start"
  /\ civil.mon = 1 /\ civil.day = 1
  /\ pc' = "year"
  /\ \E tm_year \in TmYears :
       /\ input' = tm_year
       /\ out' = ParseYear(tm_year)
  /\ UNCHANGED <<scan, civil, zone, format, plan, src, tp, ti, bd, ok>>

NextYears == CallMakeTimeInfoAtEdge \/ CallToTM \/ CallParseYear

SpecYears == InitYears /\ [][NextYears]_vars

---------------------------------------------------------------------------
(* DayOrdinal on pairs of canonical dates, years of both signs, the ends   *)
(* of the months and of the 400-year eras among them.                      *)

OrdinalYears == {-401, -400, -399, -1, 0, 1, 1969, 1970, 2000, 2001}

OrdinalDates ==
  {[year |-> W(y), month |-> m, day |-> d] :
     y \in OrdinalYears, m \in {1, 2, 3, 12}, d \in {1, 28, 29, 31}}

CanonicalDates ==
  {c \in OrdinalDates :
     c.day <= IntMonthLength(WToInt(c.year), c.month)}

InitOrdinal ==
  /\ pc = "start"
  /\ civil \in [a : CanonicalDates, b : CanonicalDates]
  /\ zone = UTCTimeZone
  /\ format = NoValue
  /\ input = NoValue
  /\ plan = NoValue
  /\ src = NoValue
  /\ tp = Before
  /\ ti = NoValue
  /\ bd = NoValue
  /\ out = NoValue
  /\ ok = FALSE
  /\ scan = NoValue

\* DayOrdinal of both dates
CallDayOrdinal ==
  /\ pc = "start"
  /\ pc' = "counted"
  /\ ti' = [a |-> DayOrdinal(civil.a.year, civil.a.month, civil.a.day),
            b |-> DayOrdinal(civil.b.year, civil.b.month, civil.b.day)]
  /\ UNCHANGED <<scan, civil, zone, format, input, plan, src, tp, bd, out, ok>>

NextOrdinal == CallDayOrdinal

SpecOrdinal == InitOrdinal /\ [][NextOrdinal]_vars

---------------------------------------------------------------------------
(* A program that parses an input.  The format and the input are put       *)
(* together from a plan: a sequence of pieces <<directive, text>>, the     *)
(* directive going to the format and the text to the input.                *)

RECURSIVE PlanFormat(_)
PlanFormat(p) ==
  IF p = <<>> THEN <<>> ELSE Str(Head(p)[1]) \o PlanFormat(Tail(p))

RECURSIVE PlanInput(_)
PlanInput(p) ==
  IF p = <<>> THEN <<>> ELSE Str(Head(p)[2]) \o PlanInput(Tail(p))

\* %Y-%m-%d with months and days in and out of range
DatePlans ==
  {<<<<"%Y", y>>, <<"-", "-">>, <<"%m", m>>, <<"-", "-">>, <<"%d", d>>>> :
     y \in {"1970", "2012", "2013"},
     m \in {"00", "01", "02", "09", "12", "13"},
     d \in {"00", "01", "29", "30", "31", "32"}}

SecondPieces ==
  {<<"%S", "00">>, <<"%S", "59">>, <<"%S", "60">>, <<"%S", "61">>,
   <<"%E*S", "00.000000001">>, <<"%E*S", "59.5">>, <<"%E*S", "60.5">>,
   <<"%E*S", "60">>, <<"%E3S", "60.123">>, <<"%E0S", "60">>}

OffsetPieces ==
  {<<>>, <<<<" ", " ">>, <<"%z", "+0000">>>>, <<<<" ", " ">>, <<"%z", "-0800">>>>,
   <<<<" ", " ">>, <<"%Ez", "+05:30">>>>, <<<<" ", " ">>, <<"%Ez", "Z">>>>,
   <<<<" ", " ">>, <<"%Ez", "+5">>>>}

\* %H:%M and a seconds directive, then possibly an offset directive
TimePlans ==
  {<<<<"%H", h>>, <<":", ":">>, <<"%M", mi>>, <<":", ":">>, s>> \o o :
     h \in {"00", "23", "24"}, mi \in {"00", "59", "60"},
     s \in SecondPieces, o \in OffsetPieces}

\* A %s directive among other directives
EpochPlans ==
  {pre \o <<<<"%s", n>>>> \o post :
     pre \in {<<>>,
              <<<<"%Y", "2013">>, <<"-", "-">>, <<"%m", "09">>, <<"-", "-">>,
                <<"%d", "31">>, <<" ", " ">>>>,
              <<<<"%H", "23">>, <<" ", " ">>>>},
     n \in {"0", "-1", "1380499200", "9223372036854775807",
            "-9223372036854775808", "9223372036854775808", "x"},
     post \in {<<>>, <<<<" ", " ">>, <<"%Ez", "+05:30">>>>,
               <<<<" ", " ">>, <<"%S", "60">>>>,
               <<<<" ", " ">>, <<"%E*S", "59.5">>>>,
               <<<<" ", " ">>, <<"%s", "7">>>>}}

\* Inputs that match, and inputs that fail in each way Parse can fail
OtherPlans ==
  {<<>>,
   <<<<"%Y", "abcd">>>>,
   <<<<"%Y", "2013">>, <<"/", "-">>, <<"%m", "09">>>>,
   <<<<"%Y", "2147483648">>>>,
   <<<<"%Y", "2147483647">>>>,
   <<<<"%Y", "-2147481748">>>>,
   <<<<"%Y", "-2147481749">>>>,
   <<<<"%Y", "2013">>, <<"", "x">>>>,
   <<<<"%Y", "2013">>, <<"", "  ">>>>,
   <<<<"%Y", "2013">>, <<"%", "">>>>,
   <<<<"%Y", "2013">>, <<"%%", "%">>>>,
   <<<<" ", "">>, <<"%Y", " 2013">>, <<"  ", "">>, <<"%m", "09">>>>,
   <<<<"%E4Y", "2013">>, <<"%m", "09">>, <<"%d", "30">>>>,
   <<<<"%E4Y", "-001">>>>,
   <<<<"%E4Y", "013">>>>,
   <<<<"%I", "03">>, <<" ", " ">>, <<"%p", "PM">>>>,
   <<<<"%p", "pm">>, <<" ", " ">>, <<"%I", "12">>>>,
   <<<<"%p", "PM">>, <<" ", " ">>, <<"%H", "03">>>>,
   <<<<"%OI", "11">>, <<"%p", "AM">>>>,
   <<<<"%I", "13">>>>,
   <<<<"%T", "23:59:59">>>>,
   <<<<"%T", "23:59:61">>>>,
   <<<<"%R", "08:30">>, <<" ", " ">>, <<"%Z", "PST">>>>,
   <<<<"%Z", "">>>>,
   <<<<"%j", "366">>>>,
   <<<<"%Q", "1">>>>,
   <<<<"%E", "1">>>>,
   <<<<"%z", "+055">>, <<"%d", "">>>>,
   <<<<"%d", "-1">>>>,
   <<<<"%m", "9">>, <<"/", "/">>, <<"%d", "5">>>>,
   <<<<"%M", "00">>, <<":", ":">>, <<"%S", "60">>>>}

Plans == DatePlans \cup TimePlans \cup EpochPlans \cup OtherPlans

InitParse ==
  /\ pc = "start"
  /\ plan \in Plans
  /\ format = PlanFormat(plan)
  /\ input = PlanInput(plan)
  /\ zone \in Zones
  /\ tp = Before
  /\ civil = NoValue
  /\ src = NoValue
  /\ ti = NoValue
  /\ bd = NoValue
  /\ out = NoValue
  /\ ok = FALSE
  /\ scan = NoValue

\* ok = Parse(format, input, zone, &tp)
CallParse ==
  /\ pc = "start"
  /\ LET r == Parse(format, input, zone, tp)
     IN  ok' = r.ok /\ tp' = r.tp
  /\ pc' = "parsed"
  /\ UNCHANGED <<scan, civil, zone, format, input, plan, src, ti, bd, out>>

\* The instants of the years %Y can read: the program breaks down no other.
FirstInstant == MakeTime(W(kintmin + 1900), 1, 1, 0, 0, 0, UTCTimeZone)
LastInstant == MakeTime(W(kintmax), 12, 31, 23, 59, 59, UTCTimeZone)

\* bd = BreakTime(tp, zone) of the instant parsed
CallBreakTimeOfParsed ==
  /\ pc = "parsed"
  /\ ok
  /\ WLe(FirstInstant, tp)
  /\ WLe(tp, LastInstant)
  /\ bd' = BreakTime(tp, zone)
  /\ pc' = "broken"
  /\ UNCHANGED <<scan, civil, zone, format, input, plan, src, tp, ti, out, ok>>

NextParse == CallParse \/ CallBreakTimeOfParsed

SpecParse == InitParse /\ [][NextParse]_vars

---------------------------------------------------------------------------
(* The same program with Parse taken one loop iteration at a time: scan    *)
(* holds Parse's locals (data, fmt, tm, ...) while Parse is in the loop of *)
(* lines 507-644 and after it.                                             *)

InitScan ==
  /\ pc = "start"
  /\ plan \in Plans
  /\ format = PlanFormat(plan)
  /\ input = PlanInput(plan)
  /\ zone \in {UTCTimeZone, LocalTimeZone(-28800)}
  /\ tp = Before
  /\ civil = NoValue
  /\ src = NoValue
  /\ ti = NoValue
  /\ bd = NoValue
  /\ out = NoValue
  /\ ok = FALSE
  /\ scan = NoValue

\* Lines 476-504: Parse is entered and sets up its locals.
EnterParse ==
  /\ pc = "start"
  /\ pc' = "scanning"
  /\ scan' = ParseStart(input)
  /\ UNCHANGED <<civil, zone, format, input, plan, src, tp, ti, bd, out, ok>>

\* One iteration of the loop
StepParse ==
  /\ pc = "scanning"
  /\ ParseScanning(format, scan)
  /\ scan' = ParseStep(format, input, scan)
  /\ UNCHANGED <<pc, civil, zone, format, input, plan, src, tp, ti, bd, out,
                 ok>>

\* Lines 646-696: the loop is left and Parse returns.
LeaveParse ==
  /\ pc = "scanning"
  /\ ~ParseScanning(format, scan)
  /\ LET r == ParseFinish(input, scan, zone, tp)
     IN  ok' = r.ok /\ tp' = r.tp
  /\ pc' = "parsed"
  /\ UNCHANGED <<scan, civil, zone, format, input, plan, src, ti, bd, out>>

NextScan == EnterParse \/ StepParse \/ LeaveParse

SpecScan == InitScan /\ [][NextScan]_vars

---------------------------------------------------------------------------
(* The same program parsing offsets: one offset directive and a text, the  *)
(* full shapes and the near misses, alone or followed by a minute.         *)

OffsetTexts ==
  {"+0000", "-0000", "+0530", "-0800", "+2359", "-2359", "+05:30", "-08:00",
   "Z", "z", "+05", "-08", "+5", "+053", "+05:3", "+05:", "0530", "05:30",
   "+2400", "+24:00", "+0560", "+05:60", "+0a30", "+05-30", "+", ""}

OffsetPlans ==
  {<<<<d, t>>>> : d \in {"%z", "%Ez"}, t \in OffsetTexts}
  \cup {<<<<d, t>>, <<" ", " ">>, <<"%M", "30">>>> :
          d \in {"%z", "%Ez"}, t \in {"+05", "+0530", "+05:", "+24"}}

InitOffset ==
  /\ pc = "start"
  /\ plan \in OffsetPlans
  /\ format = PlanFormat(plan)
  /\ input = PlanInput(plan)
  /\ zone \in Zones
  /\ tp = Before
  /\ civil = NoValue
  /\ src = NoValue
  /\ ti = NoValue
  /\ bd = NoValue
  /\ out = NoValue
  /\ ok = FALSE
  /\ scan = NoValue

SpecOffset == InitOffset /\ [][NextParse]_vars

---------------------------------------------------------------------------
(* ParseInt<int> and ParseInt<int64_t> called on a text: civil holds the   *)
(* type's least value, width, min, max and the value *vp holds before the  *)
(* call; ti holds the pointer returned and *vp after the call.             *)

IntTexts ==
  {"", "-", "0", "-0", "-00", "7", "007", "12", "-12", "+5", "12a", "a12",
   "-a", "1 2", "2013-09",
   "2147483647", "2147483648", "-2147483648", "-2147483649", "21474836470",
   "9223372036854775807", "9223372036854775808", "-9223372036854775808",
   "-9223372036854775809", "99999999999999999999"}

\* Lines 125-126: numeric_limits<T>::min() for int and for int64_t, and the
\* calls Format and Parse make: width, min, max.
IntCalls ==
  {[kmin |-> W(kintmin), width |-> c[1], min |-> W(c[2]), max |-> W(c[3]),
    v0 |-> W(7)] :
     c \in {<<0, kintmin, kintmax>>, <<0, 0, 1024>>, <<2, 0, 23>>,
            <<2, 1, 12>>, <<1, 0, 9>>, <<3, -99, 999>>, <<2, 0, 60>>}}
  \cup {[kmin |-> INT64_MIN, width |-> 0, min |-> INT64_MIN,
         max |-> INT64_MAX, v0 |-> W(7)],
        [kmin |-> INT64_MIN, width |-> 0, min |-> W(0), max |-> INT64_MAX,
         v0 |-> W(7)]}

InitParseInt ==
  /\ pc = "start"
  /\ input \in {Str(t) : t \in IntTexts}
  /\ civil \in IntCalls
  /\ zone = UTCTimeZone
  /\ format = NoValue
  /\ plan = NoValue
  /\ src = NoValue
  /\ tp = Before
  /\ ti = NoValue
  /\ bd = NoValue
  /\ out = NoValue
  /\ ok = FALSE
  /\ scan = NoValue

\* dp = ParseInt(input.c_str(), width, min, max, &v)
CallParseInt ==
  /\ pc = "start"
  /\ pc' = "read"
  /\ ti' = ParseInt(input, 1, civil.width, civil.min, civil.max, civil.kmin,
                    civil.v0)
  /\ UNCHANGED <<scan, civil, zone, format, input, plan, src, tp, bd, out,
                 ok>>

NextParseInt == CallParseInt

SpecParseInt == InitParseInt /\ [][NextParseInt]_vars

---------------------------------------------------------------------------
(* Parse, one loop iteration at a time, of hours and AM/PM markers in      *)
(* either order.                                                           *)

HourPieces ==
  {<<"%H", "03">>, <<"%H", "15">>, <<"%I", "03">>, <<"%I", "12">>,
   <<"%OH", "15">>, <<"%OI", "03">>, <<"%R", "15:04">>, <<"%R", "03:04">>,
   <<"%T", "03:04:05">>, <<"%r", "03:04:05 PM">>, <<"%r", "03:04:05 AM">>,
   <<"%c", "x">>, <<"%X", "x">>, <<"%Ec", "x">>, <<"%EX", "x">>}

MarkerPieces ==
  {<<"%p", "AM">>, <<"%p", "PM">>, <<"%p", "pm">>, <<"%p", "XM">>}

HourPlans ==
  {<<h>> : h \in HourPieces}
  \cup {<<h, <<" ", " ">>, p>> : h \in HourPieces, p \in MarkerPieces}
  \cup {<<p, <<" ", " ">>, h>> : h \in HourPieces, p \in MarkerPieces}
  \cup {<<h, <<" ", " ">>, g, <<" ", " ">>, p>> :
          h \in HourPieces, g \in {<<"%H", "03">>, <<"%I", "03">>},
          p \in {<<"%p", "PM">>}}
  \cup {<<p, <<" ", " ">>, h, <<" ", " ">>, q>> :
          h \in {<<"%H", "03">>, <<"%I", "03">>, <<"%r", "03:04:05 PM">>},
          p \in MarkerPieces, q \in MarkerPieces}

InitHours ==
  /\ pc = "start"
  /\ plan \in HourPlans
  /\ format = PlanFormat(plan)
  /\ input = PlanInput(plan)
  /\ zone = UTCTimeZone
  /\ tp = Before
  /\ civil = NoValue
  /\ src = NoValue
  /\ ti = NoValue
  /\ bd = NoValue
  /\ out = NoValue
  /\ ok = FALSE
  /\ scan = NoValue

SpecHours == InitHours /\ [][NextScan]_vars

---------------------------------------------------------------------------
(* A program that formats, one iteration of Format's loop at a time, with  *)
(* the scratch buffer in view.  The zone's BreakTime is any implementation *)
(* of TimeZoneIf: its year is any int64_t and its offset any int.          *)

\* "%E<n>S"
PrecisionFormat(n) == Str("%E" \o ToString(n) \o "S")

\* Every conversion Format writes itself, alone and in company, and text
\* that is not a conversion of its own.
DirectiveFormats ==
  {"%Y", "%E4Y", "%s", "%m", "%d", "%e", "%H", "%M", "%S", "%z", "%Ez", "%Z",
   "%E*S", "%E4Y-%m-%dT%H:%M:%E18S%Ez", "%%Y%%%E*S", "%E*", "%E18", "%E5Y",
   "%Y %s %E1024S", "at %H%", "%E"}

\* Every count ParseInt accepts at line 358, and the first it refuses
PrecisionFormats == {PrecisionFormat(n) : n \in 0..(MaxDigits + 1)}

ScratchYears == {INT64_MIN, INT64_MAX, W(-999), W(2013)}

ScratchOffsets == {kintmin, kintmax, -43200, -59, 0, 19800}

ScratchInstants ==
  {WAddS(Seconds(W(s)), ns) :
     s \in {-1, 1357095845}, ns \in {0, 120000000, 999999999}}

\* civil holds the year and the offset the zone's BreakTime answers with.
InitScratch ==
  /\ pc = "start"
  /\ \/ /\ format \in {Str(f) : f \in DirectiveFormats}
        /\ src \in ScratchInstants
        /\ civil \in [year : ScratchYears, offset : ScratchOffsets]
     \/ /\ format \in PrecisionFormats
        /\ src \in {WAddS(Seconds(W(59)), ns) : ns \in {0, 999999999}}
        /\ civil = [year |-> W(1970), offset |-> 0]
  /\ zone = UTCTimeZone
  /\ tp = Before
  /\ input = NoValue
  /\ plan = NoValue
  /\ ti = NoValue
  /\ bd = NoValue
  /\ out = NoValue
  /\ ok = FALSE
  /\ scan = NoValue

\* Lines 221-237: the Breakdown and the cursors before the loop.
EnterFormat ==
  /\ pc = "start"
  /\ bd' = [BreakTime(src, zone) EXCEPT !.year = civil.year,
                                        !.offset = civil.offset]
  /\ scan' = [pending |-> 1, cur |-> 1, result |-> <<>>, scratch |-> <<>>]
  /\ pc' = "formatting"
  /\ UNCHANGED <<civil, zone, format, input, plan, src, tp, ti, out, ok>>

\* One iteration of the loop of lines 239-378; scan.scratch is what it
\* wrote into buf.
StepFormat ==
  /\ pc = "formatting"
  /\ scan.cur # Len(format) + 1
  /\ scan' = Let(FormatStep(format, scan, bd, ToTM(bd), src), LAMBDA s :
               [pending |-> s.pending, cur |-> s.cur, result |-> s.result,
                scratch |-> ScratchStep(format, scan, bd, src)])
  /\ UNCHANGED <<pc, civil, zone, format, input, plan, src, tp, ti, bd, out,
                 ok>>

\* Lines 380-385: the remaining text goes through strftime.
LeaveFormat ==
  /\ pc = "formatting"
  /\ scan.cur = Len(format) + 1
  /\ out' = IF Len(format) + 1 # scan.pending
            THEN FormatTM(scan.result,
                          Chars(format, scan.pending, Len(format) + 1),
                          ToTM(bd))
            ELSE scan.result
  /\ pc' = "formatted"
  /\ UNCHANGED <<scan, civil, zone, format, input, plan, src, tp, ti, bd, ok>>

NextScratch == EnterFormat \/ StepFormat \/ LeaveFormat

SpecScratch == InitScratch /\ [][NextScratch]_vars

---------------------------------------------------------------------------
(* A program that formats an instant as its seconds since the epoch, next  *)
(* to its calendar fields.                                                 *)

EpochFormats == {"%s", "%s|%E*S", "%s|%Y-%m-%d %H:%M:%S", "%s|%H:%M:%E3S %Ez"}

InitEpoch ==
  /\ pc = "start"
  /\ src \in SecondInstants
  /\ zone \in {UTCTimeZone, LocalTimeZone(-28800), LocalTimeZone(19800)}
  /\ format \in {Str(f) : f \in EpochFormats}
  /\ tp = Before
  /\ civil = NoValue
  /\ input = NoValue
  /\ plan = NoValue
  /\ ti = NoValue
  /\ bd = NoValue
  /\ out = NoValue
  /\ ok = FALSE
  /\ scan = NoValue

SpecEpoch == InitEpoch /\ [][NextSeconds]_vars

---------------------------------------------------------------------------
(* A program that parses an offset and then something else, one iteration  *)
(* of Parse's loop at a time.                                              *)

LeadingOffsetPieces ==
  {<<d, t>> : d \in {"%z", "%Ez"},
              t \in {"+05", "-08", "+23", "+0530", "-0800", "+05:30", "Z"}}

\* What follows the offset: digits the minutes could take, and others
FollowingPieces ==
  {<<"%d", "5">>, <<"%d", "05">>, <<"%d", "60">>, <<"%M", "7">>,
   <<"%H", "9">>, <<":%M", ":3">>, <<":%M", ":30">>, <<"-%d", "-5">>,
   <<" %d", " 5">>, <<"%Y", "2013">>}

FollowedOffsetPlans ==
  {<<o>> : o \in LeadingOffsetPieces}
  \cup {<<o, f>> : o \in LeadingOffsetPieces, f \in FollowingPieces}

InitFollowedOffset ==
  /\ pc = "start"
  /\ plan \in FollowedOffsetPlans
  /\ format = PlanFormat(plan)
  /\ input = PlanInput(plan)
  /\ zone \in {UTCTimeZone, LocalTimeZone(-28800)}
  /\ tp = Before
  /\ civil = NoValue
  /\ src = NoValue
  /\ ti = NoValue
  /\ bd = NoValue
  /\ out = NoValue
  /\ ok = FALSE
  /\ scan = NoValue

SpecFollowedOffset == InitFollowedOffset /\ [][NextScan]_vars

---------------------------------------------------------------------------
(* The civil calendar, stated without the code: machine ints only.         *)

\* 1 = Monday .. 7 = Sunday of a proleptic Gregorian date
GregorianWeekday(y, m, d) ==
  LET yy == IF m < 3 THEN y - 1 ELSE y
      t  == <<0, 3, 2, 5, 0, 3, 5, 1, 4, 6, 2, 4>>[m]
      w  == (yy + (yy \div 4) - (yy \div 100) + (yy \div 400) + t + d) % 7
  IN  IF w = 0 THEN 7 ELSE w

RECURSIVE DaysBeforeMonth(_, _)
DaysBeforeMonth(y, m) ==
  IF m = 1 THEN 0 ELSE DaysBeforeMonth(y, m - 1) + IntMonthLength(y, m - 1)

\* 1 .. 366
GregorianYearday(y, m, d) == DaysBeforeMonth(y, m) + d

IsCanonical(c) ==
  /\ c.mon \in 1..12
  /\ c.day >= 1
  /\ c.day <= IntMonthLength(c.year, c.mon)
  /\ c.hour \in 0..23
  /\ c.min \in 0..59
  /\ c.sec \in 0..59

---------------------------------------------------------------------------
(* C1.  In the UTC backend MakeTimeInfo returns, for every civil time      *)
(* (y, m, d, h, mi, s), kind UNIQUE with pre = trans = post the instant    *)
(* 86400 * (DayOrdinal(Y, M, 1) + d - 1) + 3600 * h + 60 * mi + s seconds  *)
(* after the epoch, where Y = y + floor((m - 1) / 12) and                  *)
(* M = ((m - 1) mod 12) + 1: every field is carried linearly.              *)

C1_LinearSeconds(c) ==
  WAdd(WMulS(WAddS(DayOrdinal(W(c.year + ((c.mon - 1) \div 12)),
                              ((c.mon - 1) % 12) + 1, 1),
                   c.day - 1), 86400),
       WAdd(WMulS(W(c.hour), 3600), WAdd(WMulS(W(c.min), 60), W(c.sec))))

C1_MakeTimeInfoIsLinear ==
  (pc \in {"made", "broken"} /\ ~zone.local) =>
    /\ ti.kind = "UNIQUE"
    /\ ti.pre = FromUnixSeconds(C1_LinearSeconds(civil))
    /\ ti.trans = ti.pre
    /\ ti.post = ti.pre

\* A call whose month is not positive, whose days span more than a leap
\* cycle and whose time of day is out of range on both sides.
C1_Witness ==
  /\ pc = "made"
  /\ ~zone.local
  /\ civil.mon < 1
  /\ civil.day > 1461
  /\ civil.hour < 0
  /\ civil.min > 59
  /\ ti.kind = "UNIQUE"

---------------------------------------------------------------------------
(* C2.  The normalized flag returned by MakeTimeInfo is true if and only   *)
(* if at least one input field was outside its natural range: month not in *)
(* 1..12, day not in 1..(length of that month in that year), hour not in   *)
(* 0..23, minute or second not in 0..59.  MakeTimeInfo(2013, 10, 32, 8,    *)
(* 30, 0) returns kind UNIQUE with normalized = true and an instant that   *)
(* breaks down to November 1.                                              *)

C2_NormalizedIffOutOfRange ==
  /\ (pc \in {"made", "broken"} /\ ~zone.local) =>
       (ti.normalized <=> ~IsCanonical(civil))
  /\ (/\ pc = "broken"
      /\ ~zone.local
      /\ civil = [year |-> 2013, mon |-> 10, day |-> 32,
                  hour |-> 8, min |-> 30, sec |-> 0]) =>
       /\ ti.kind = "UNIQUE"
       /\ ti.normalized
       /\ bd.month = 11
       /\ bd.day = 1

---------------------------------------------------------------------------
(* C3.  Civil round trip in UTC: for every canonical civil time with the   *)
(* year in -9999 .. 9999, BreakTime(MakeTime(...)) yields the same six     *)
(* fields, with the weekday (1 = Mon .. 7 = Sun) and the yearday (1..366)  *)
(* of the Gregorian calendar; the instant 0 breaks down to 1970-01-01      *)
(* 00:00:00, weekday 4, yearday 1.                                         *)

C3_CivilRoundTrip ==
  /\ (pc = "broken" /\ ~zone.local /\ IsCanonical(civil)) =>
       /\ bd.year = W(civil.year)
       /\ bd.month = civil.mon
       /\ bd.day = civil.day
       /\ bd.hour = civil.hour
       /\ bd.minute = civil.min
       /\ bd.second = civil.sec
       /\ bd.weekday = GregorianWeekday(civil.year, civil.mon, civil.day)
       /\ bd.yearday = GregorianYearday(civil.year, civil.mon, civil.day)
  /\ (pc = "broken" /\ ~zone.local /\ src = W(0)) =>
       /\ bd.year = W(1970) /\ bd.month = 1 /\ bd.day = 1
       /\ bd.hour = 0 /\ bd.minute = 0 /\ bd.second = 0
       /\ bd.weekday = 4 /\ bd.yearday = 1

\* The round trip of the last second of a leap day before the year 1.
C3_Witness ==
  /\ pc = "broken"
  /\ ~zone.local
  /\ IsCanonical(civil)
  /\ civil.year < 0
  /\ civil.mon = 2
  /\ civil.day = 29
  /\ civil.hour = 23
  /\ bd.day = 29
  /\ bd.yearday = 60

---------------------------------------------------------------------------
(* Decimal numerals, stated without the code.                              *)

\* The four decimal digits of a limb
LimbDigits(n) ==
  <<kDigits[(n \div 1000) + 1], kDigits[((n \div 100) % 10) + 1],
    kDigits[((n \div 10) % 10) + 1], kDigits[(n % 10) + 1]>>

RECURSIVE AllLimbDigits(_)
AllLimbDigits(mag) ==
  IF mag = <<>> THEN <<>>
  ELSE AllLimbDigits(Tail(mag)) \o LimbDigits(Head(mag))

RECURSIVE DropZeros(_)
DropZeros(ds) ==
  IF Len(ds) > 1 /\ Head(ds) = "0" THEN DropZeros(Tail(ds)) ELSE ds

\* The decimal digits of the magnitude of a wide integer, "0" for zero
DecimalDigits(x) == DropZeros(<<"0">> \o AllLimbDigits(x.mag))

RECURSIVE ZeroPadded(_, _)
ZeroPadded(ds, width) ==
  IF Len(ds) < width THEN ZeroPadded(<<"0">> \o ds, width) ELSE ds

\* The plain signed decimal numeral of a wide integer
Numeral(x) == (IF x.neg THEN <<"-">> ELSE <<>>) \o DecimalDigits(x)

\* The numeral padded with zeros to width characters, the sign counted
PaddedNumeral(x, width) ==
  IF x.neg THEN <<"-">> \o ZeroPadded(DecimalDigits(x), width - 1)
  ELSE ZeroPadded(DecimalDigits(x), width)

---------------------------------------------------------------------------
(* C10.  Format with %E4Y emits, for every year in -999 .. 9999, exactly   *)
(* four characters: the decimal year left-padded with '0', a leading '-'   *)
(* counted in the four (-1 -> "-001", 0 -> "0000", 9999 -> "9999"); for    *)
(* every year outside that range it emits more than four characters, the   *)
(* plain signed decimal that %Y emits; this holds for every int64 year     *)
(* including INT64_MIN.                                                    *)

C10_FourCharacterYear ==
  (pc \in {"formatted", "parsed"} /\ format = Str("%E4Y")) =>
    /\ out = PaddedNumeral(bd.year, 4)
    /\ (WLe(W(-999), bd.year) /\ WLe(bd.year, W(9999))) => Len(out) = 4
    /\ ~(WLe(W(-999), bd.year) /\ WLe(bd.year, W(9999))) =>
         /\ Len(out) > 4
         /\ out = Numeral(bd.year)
         /\ out = FormatBreakdown(Str("%Y"), bd, src)
    /\ bd.year = W(-1) => out = Str("-001")
    /\ bd.year = W(0) => out = Str("0000")
    /\ bd.year = W(9999) => out = Str("9999")
    /\ bd.year = W(12345) => out = Str("12345")
    /\ bd.year = W(-1000) => out = Str("-1000")

\* %E4Y of the year INT64_MIN: twenty characters.
C10_Witness ==
  /\ pc = "formatted"
  /\ format = Str("%E4Y")
  /\ bd.year = INT64_MIN
  /\ out = Str("-9223372036854775808")

---------------------------------------------------------------------------
(* C6.  Format/parse round trip: for the format "%Y-%m-%d %H:%M:%E*S %Ez", *)
(* the UTC zone and every instant t whose year fits the parser's int range *)
(* (negative instants with a sub-second part and years <= 0 included),     *)
(* Parse(format, Format(format, t, UTC), UTC, &t2) returns true and        *)
(* t2 = t.                                                                 *)

C6_FormatParseRoundTrip ==
  (/\ pc = "parsed"
   /\ format = Str(RFC3339_full)
   /\ zone = UTCTimeZone
   /\ bd = BreakTime(src, zone)) =>
    ok /\ tp = src

\* The round trip of an instant before the epoch, in a year below zero,
\* with a sub-second part.
C6_Witness ==
  /\ pc = "parsed"
  /\ format = Str(RFC3339_full)
  /\ zone = UTCTimeZone
  /\ bd = BreakTime(src, zone)
  /\ src.neg
  /\ bd.year.neg
  /\ bd.subsecond = W(999999999)
  /\ ok
  /\ tp = src

---------------------------------------------------------------------------
(* What a plan says, stated without the code: the fields its texts spell.  *)

DigitValue(c) == CHOOSE d \in 0..9 : kDigits[d + 1] = c

\* The number a sequence of digits spells (machine int)
RECURSIVE NumberOf(_)
NumberOf(ds) ==
  IF ds = <<>> THEN 0
  ELSE (NumberOf(SubSeq(ds, 1, Len(ds) - 1)) * 10) + DigitValue(ds[Len(ds)])

\* The wide integer a sequence of digits spells: its limbs are the groups of
\* four digits counted from the right.
WideOfDigits(ds) ==
  WMake(FALSE,
        [i \in 1..((Len(ds) + 3) \div 4) |->
           NumberOf(SubSeq(ds, IF Len(ds) - (4 * i) + 1 < 1 THEN 1
                               ELSE Len(ds) - (4 * i) + 1,
                           Len(ds) - (4 * (i - 1))))])

\* The wide integer a signed numeral spells

WideOfNumeral(t) ==
  IF Head(t) = "-" THEN WNeg(WideOfDigits(Tail(t))) ELSE WideOfDigits(t)

RECURSIVE ZeroExtended(_, _)
ZeroExtended(ds, width) ==
  IF Len(ds) < width THEN ZeroExtended(ds \o <<"0">>, width) ELSE ds

\* The nanoseconds of the fraction in a seconds text "ss" or "ss.ffff"
FractionOf(t) ==
  IF Len(t) > 3 THEN NumberOf(ZeroExtended(SubSeq(t, 4, Len(t)), 9)) ELSE 0

\* An offset text is "Z" or a sign, two hour digits, possibly a colon, and
\* two minute digits.
OffsetWellFormed(t) == t = <<"Z">> \/ Len(t) \in {5, 6}

\* The seconds east of UTC an offset text spells
OffsetOf(t) ==
  IF t = <<"Z">> THEN 0
  ELSE (IF t[1] = "-" THEN -1 ELSE 1)
       * ((NumberOf(SubSeq(t, 2, 3)) * 3600)
          + (NumberOf(SubSeq(t, Len(t) - 1, Len(t))) * 60))

\* The fields a piece leaves, given the fields f before it
PieceFields(piece, f) ==
  LET dir == piece[1]
      t == Str(piece[2])
  IN  CASE dir = "%Y" -> [f EXCEPT !.year = NumberOf(t)]
        [] dir = "%m" -> [f EXCEPT !.mon = NumberOf(t)]
        [] dir = "%d" -> [f EXCEPT !.day = NumberOf(t)]
        [] dir = "%H" -> [f EXCEPT !.hour = NumberOf(t)]
        [] dir = "%M" -> [f EXCEPT !.min = NumberOf(t)]
        [] dir \in {"%S", "%E*S", "%E3S", "%E0S"} ->
             [f EXCEPT !.sec = NumberOf(SubSeq(t, 1, 2)), !.ns = FractionOf(t)]
        [] dir \in {"%z", "%Ez"} ->
             IF OffsetWellFormed(t) THEN [f EXCEPT !.off = OffsetOf(t), !.given = TRUE]
             ELSE [f EXCEPT !.wellformed = FALSE]
        [] OTHER -> f

RECURSIVE PlanFieldsFrom(_, _)
PlanFieldsFrom(p, f) ==
  IF p = <<>> THEN f ELSE PlanFieldsFrom(Tail(p), PieceFields(Head(p), f))

\* The fields of a plan: those its pieces spell, 1970-01-01 00:00:00.0 and
\* no offset for the others.
PlanFields(p) ==
  PlanFieldsFrom(p, [year |-> 1970, mon |-> 1, day |-> 1, hour |-> 0,
                     min |-> 0, sec |-> 0, ns |-> 0, off |-> 0,
                     given |-> FALSE, wellformed |-> TRUE])

\* Days from 1970-01-01 to the first day of year y
DaysBeforeYear(y) ==
  (365 * (y - 1970))
  + (((y - 1) \div 4) - ((y - 1) \div 100) + ((y - 1) \div 400))
  - ((1969 \div 4) - (1969 \div 100) + (1969 \div 400))

\* Seconds from the epoch to the civil time f read in UTC, the day and the
\* second counted on linearly
UtcSeconds(f) ==
  WAdd(WMulS(W(DaysBeforeYear(f.year) + DaysBeforeMonth(f.year, f.mon)
               + f.day - 1), 86400),
       W((f.hour * 3600) + (f.min * 60) + f.sec))

\* Are the date and time fields in range?  A second of 60 is.
FieldsInRange(f) ==
  /\ f.mon \in 1..12
  /\ f.day >= 1
  /\ f.day <= IntMonthLength(f.year, f.mon)
  /\ f.hour \in 0..23
  /\ f.min \in 0..59
  /\ f.sec \in 0..60

\* The offset the fields are read with: the one given, or else the zone's.
OffsetRead(f, z) == IF f.given THEN f.off ELSE z.offset

---------------------------------------------------------------------------
(* C4.  Parse is strict: it returns false whenever the parsed date and     *)
(* time fields are out of range, a day number within 1..31 but beyond the  *)
(* length of the parsed month included: parsing "Sep 31" or "Feb 30" with  *)
(* %Y-%m-%d in the UTC zone fails and does not produce the instant of      *)
(* "Oct 1" or "Mar 2".                                                     *)

C4_ParseIsStrict ==
  (/\ pc \in {"parsed", "broken"}
   /\ plan \in DatePlans \cup TimePlans
   /\ ~FieldsInRange(PlanFields(plan))) =>
    ~ok

---------------------------------------------------------------------------
(* C5.  Whenever Parse returns false, the caller's time_point is left as   *)
(* it was before the call: it is written only on the paths that return     *)
(* true.                                                                   *)

C5_FailedParseLeavesOutput ==
  [][(pc = "start" /\ pc' = "parsed" /\ ~ok') => tp' = tp]_vars

\* A parse that fails after the conversion: September 31 in the local zone.
C5_Witness ==
  /\ pc = "parsed"
  /\ zone.local
  /\ format = Str("%Y-%m-%d")
  /\ input = Str("2013-09-31")
  /\ ~ok
  /\ tp = Before

---------------------------------------------------------------------------
(* C7.  Leap second in Parse: when the parsed seconds field is 60 (by %S,  *)
(* %E*S or %E<n>S) Parse succeeds and returns the instant of second :00 of *)
(* the following minute, any parsed fraction discarded, with or without an *)
(* explicit offset; seconds 59.x and 00.x keep their fraction exactly.     *)
(* Parse("%M:%S", "00:60", UTC) yields 1970-01-01 00:01:00.                *)

C7_Expected(f, z) ==
  IF f.sec = 60
  THEN Seconds(WSubS(WAddS(UtcSeconds([f EXCEPT !.sec = 0]), 60),
                     OffsetRead(f, z)))
  ELSE WAddS(Seconds(WSubS(UtcSeconds(f), OffsetRead(f, z))), f.ns)

C7_LeapSecond ==
  /\ (/\ pc \in {"parsed", "broken"}
      /\ plan \in TimePlans
      /\ PlanFields(plan).wellformed
      /\ FieldsInRange(PlanFields(plan))) =>
       ok /\ tp = C7_Expected(PlanFields(plan), zone)
  /\ (/\ pc \in {"parsed", "broken"}
      /\ format = Str("%M:%S")
      /\ input = Str("00:60")
      /\ zone = UTCTimeZone) =>
       ok /\ tp = Seconds(W(60))
  /\ (/\ pc = "broken"
      /\ format = Str("%M:%S")
      /\ input = Str("00:60")
      /\ zone = UTCTimeZone) =>
       /\ bd.year = W(1970) /\ bd.month = 1 /\ bd.day = 1
       /\ bd.hour = 0 /\ bd.minute = 1 /\ bd.second = 0
       /\ bd.subsecond = W(0)

\* 23:59:60.5 with no offset in a zone west of UTC: the fraction is gone and
\* the instant is that of the next day's first second.
C7_Witness ==
  /\ pc = "broken"
  /\ plan \in TimePlans
  /\ input = Str("23:59:60.5")
  /\ zone = LocalTimeZone(-28800)
  /\ ok
  /\ bd.day = 2
  /\ bd.hour = 0
  /\ bd.minute = 0
  /\ bd.second = 0
  /\ bd.subsecond = W(0)

---------------------------------------------------------------------------
(* C8.  %s short-circuit: if Parse succeeds and its format contained %s,   *)
(* the instant returned is the parsed integer number of seconds after the  *)
(* epoch, the same for every zone and for every value of the other parsed  *)
(* fields (date, time, subseconds, offset, leap second).                   *)

\* The texts of the %s pieces of a plan
RECURSIVE EpochTexts(_)
EpochTexts(p) ==
  IF p = <<>> THEN <<>>
  ELSE (IF Head(p)[1] = "%s" THEN <<Head(p)[2]>> ELSE <<>>)
       \o EpochTexts(Tail(p))

C8_EpochSeconds ==
  (pc \in {"parsed", "broken"} /\ plan \in EpochPlans /\ ok) =>
    /\ tp = Seconds(WideOfNumeral(
                      Str(EpochTexts(plan)[Len(EpochTexts(plan))])))
    /\ \A z \in Zones :
         Parse(format, input, z, Before) = [ok |-> TRUE, tp |-> tp]
    /\ \A q \in EpochPlans :
         (EpochTexts(q) = EpochTexts(plan)
          /\ Parse(PlanFormat(q), PlanInput(q), zone, Before).ok) =>
           Parse(PlanFormat(q), PlanInput(q), zone, Before).tp = tp

\* A %s of -1 between a date that is not one and an offset, in a local zone.
C8_Witness ==
  /\ pc = "parsed"
  /\ format = Str("%Y-%m-%d %s %Ez")
  /\ input = Str("2013-09-31 -1 +05:30")
  /\ zone = LocalTimeZone(-28800)
  /\ ok
  /\ tp = Seconds(W(-1))

---------------------------------------------------------------------------
(* C9.  An explicit offset overrides the zone: if the input gave an offset *)
(* through %z or %Ez ("+0000" and "Z" included), Parse reads the civil     *)
(* fields in UTC and returns utc_instant(fields) - offset + subseconds,    *)
(* whatever the zone; if no offset directive was matched the fields are    *)
(* read in the zone passed, with offset 0.  Unspecified fields default to  *)
(* 1970-01-01 00:00:00.                                                    *)

\* The subseconds of the result: none after a second of 60
C9_Expected(f, z) ==
  WAddS(Seconds(WSubS(UtcSeconds(f), OffsetRead(f, z))),
        IF f.sec = 60 THEN 0 ELSE f.ns)

---------------------------------------------------------------------------
(* The seconds of a Breakdown as text, stated without the code.            *)

\* The nine digits of a count of nanoseconds below one second
NineDigits(ns) == ZeroPadded(DecimalDigits(ns), 9)

RECURSIVE WithoutTrailingZeros(_)
WithoutTrailingZeros(ds) ==
  IF ds = <<>> THEN ds
  ELSE IF ds[Len(ds)] = "0"
       THEN WithoutTrailingZeros(SubSeq(ds, 1, Len(ds) - 1))
       ELSE ds

\* The two digits of a second
TwoDigits(n) == <<kDigits[(n \div 10) + 1], kDigits[(n % 10) + 1]>>

---------------------------------------------------------------------------
(* C11.  Format with %E*S emits the two-digit zero-padded second, followed *)
(* only when the sub-second part is not zero by '.' and the nanosecond     *)
(* count written with 9 digits and all trailing zeros removed (1 to 9      *)
(* fractional digits, never ending in '0'); when the sub-second part is    *)
(* zero it emits just the two-digit second, with no decimal point.         *)

C11_FullPrecisionSeconds ==
  (pc \in {"formatted", "parsed"} /\ format = Str("%E*S")) =>
    /\ bd.subsecond = W(0) => out = TwoDigits(bd.second)
    /\ bd.subsecond # W(0) =>
         /\ out = TwoDigits(bd.second) \o <<".">>
                  \o WithoutTrailingZeros(NineDigits(bd.subsecond))
         /\ Len(out) \in 4..12
         /\ out[Len(out)] # "0"

\* One nanosecond before the epoch: 59.999999999
C11_Witness ==
  /\ pc = "formatted"
  /\ format = Str("%E*S")
  /\ src = W(-1)
  /\ out = Str("59.999999999")

\* Ten nanoseconds after a whole second: eight digits, the last zero gone
C11_WitnessTrimmed ==
  /\ pc = "formatted"
  /\ format = Str("%E*S")
  /\ bd.subsecond = W(10)
  /\ bd.second = 5
  /\ out = Str("05.00000001")

---------------------------------------------------------------------------
(* C12.  Format with %E<n>S, for a decimal count n in [0, 1024], emits the *)
(* two-digit second followed by exactly n fractional digits of the         *)
(* sub-second value (truncated, not rounded, when n < 9; zero-extended     *)
(* when n > 9), and no decimal point when n = 0; "%E3S" at a whole second  *)
(* emits "05.000".                                                         *)
(* As stated this fails for n > 18: line 366 clamps n to kDigits10_64, so  *)
(* "%E19S" to "%E1024S" emit 18 digits.  What holds is the statement with  *)
(* min(n, 18) fractional digits.                                           *)

DigitCounts == {0, 1, 3, 8, 9, 10, 17, 18, 19, MaxDigits}

DigitsFormat(n) == Str("%E" \o ToString(n) \o "S")

\* The first n digits of the fraction written with nine digits and then
\* zeros without end
FractionDigits(ns, n) ==
  [i \in 1..n |-> IF i <= 9 THEN NineDigits(ns)[i] ELSE "0"]

SecondsWithDigits(b, n) ==
  TwoDigits(b.second)
  \o (IF n = 0 THEN <<>> ELSE <<".">> \o FractionDigits(b.subsecond, n))

\* The claim as stated: exactly n digits
C12_ExactlyNDigits ==
  \A n \in DigitCounts :
    (pc \in {"formatted", "parsed"} /\ format = DigitsFormat(n)) =>
      out = SecondsWithDigits(bd, n)

\* The claim with the clamp: min(n, kDigits10_64) digits
C12_ClampedDigits ==
  /\ \A n \in DigitCounts :
       (pc \in {"formatted", "parsed"} /\ format = DigitsFormat(n)) =>
         out = SecondsWithDigits(bd, IF n > kDigits10_64 THEN kDigits10_64
                                     ELSE n)
  /\ (pc \in {"formatted", "parsed"} /\ format = Str("%E03S")) =>
       out = SecondsWithDigits(bd, 3)

\* 1024 digits asked for, 18 written
C12_Witness ==
  /\ pc = "formatted"
  /\ format = DigitsFormat(MaxDigits)
  /\ bd.subsecond = W(123456789)
  /\ bd.second = 5
  /\ out = Str("05.123456789000000000")

\* The example of the header: a whole second with three digits
C12_WitnessWholeSecond ==
  /\ pc = "formatted"
  /\ format = Str("%E3S")
  /\ bd.subsecond = W(0)
  /\ out = Str("05.000")

---------------------------------------------------------------------------
(* C13.  Year arithmetic never silently overflows: in MakeTimeInfo (UTC    *)
(* backend), when adding the month carry to the year or stepping the year  *)
(* during day-of-month normalization would leave the int64 range, the year *)
(* saturates at INT64_MAX / INT64_MIN instead of wrapping; likewise        *)
(* Parse's year = tm_year + 1900 and Format's conversion of the Breakdown  *)
(* year to tm_year saturate at the limits of their integer types.          *)
(* The code has no saturation in MakeTimeInfo: the additions of lines 129, *)
(* 131, 135, 139, 142 and 148 are plain int64_t additions.  The formula    *)
(* speaks of the runs that produce a year (a build that traps on signed    *)
(* overflow produces none).                                                *)

\* x brought into [lo, hi]
Saturated(x, lo, hi) == IF WLt(x, lo) THEN lo ELSE IF WLt(hi, x) THEN hi ELSE x

\* The date of lines 128-151 in exact integers
ExactDate(year, mon, day) ==
  Let(NormalizeField(12, mon - 1, FALSE), LAMBDA n4 :
  Let(IF n4.val + 1 > 2 THEN 1 ELSE 0, LAMBDA shift :
  Let(YearsForward(day, WAddS(WAdd(year, W(n4.carry)), shift)), LAMBDA fwd :
  Let(YearsBackward(fwd.day, fwd.year), LAMBDA bwd :
    MonthsForward(bwd.day, n4.val + 1, WSubS(bwd.year, shift))))))

C13_MakeTimeInfoYearSaturates ==
  (pc = "made" /\ ~ti.aborted) =>
    ti.year = Saturated(ExactDate(civil.year, civil.mon, civil.day).year,
                        INT64_MIN, INT64_MAX)

C13_ToTMYearSaturates ==
  pc = "tm" =>
    W(out.tm_year) = Saturated(WSubS(bd.year, 1900), W(kintmin), W(kintmax))

C13_ParseYearSaturates ==
  pc = "year" =>
    out = Saturated(WAddS(W(input), 1900), INT64_MIN, INT64_MAX)

C13_YearArithmeticSaturates ==
  /\ C13_MakeTimeInfoYearSaturates
  /\ C13_ToTMYearSaturates
  /\ C13_ParseYearSaturates

---------------------------------------------------------------------------
(* C14.  DayOrdinal is anchored and strictly monotonic:                    *)
(* DayOrdinal(1970, 1, 1) = 0, DayOrdinal(2000, 3, 1) minus                *)
(* DayOrdinal(2000, 2, 1) is 29, and for canonical dates a before b,       *)
(* years of zero and below included, DayOrdinal(a) < DayOrdinal(b).        *)

DateOf(y, m, d) == [year |-> W(y), month |-> m, day |-> d]

\* Is the date a before the date b?
DateBefore(a, b) ==
  \/ WLt(a.year, b.year)
  \/ a.year = b.year /\ a.month < b.month
  \/ a.year = b.year /\ a.month = b.month /\ a.day < b.day

\* The days from 1970-01-01 to the date, counted year by year and month by
\* month
DaysSinceEpoch(c) ==
  DaysBeforeYear(WToInt(c.year)) + DaysBeforeMonth(WToInt(c.year), c.month)
  + c.day - 1

C14_DayOrdinalMonotonic ==
  pc = "counted" =>
    /\ civil.a = DateOf(1970, 1, 1) => ti.a = W(0)
    /\ (civil.a = DateOf(2000, 2, 1) /\ civil.b = DateOf(2000, 3, 1)) =>
         WSub(ti.b, ti.a) = W(29)
    /\ DateBefore(civil.a, civil.b) => WLt(ti.a, ti.b)
    /\ civil.a = civil.b => ti.a = ti.b
    /\ ti.a = W(DaysSinceEpoch(civil.a))

\* The last day of February and the first of March of the year 0
C14_Witness ==
  /\ pc = "counted"
  /\ civil.a = DateOf(0, 2, 29)
  /\ civil.b = DateOf(0, 3, 1)
  /\ WLt(ti.a, ti.b)
  /\ ti.b = W(-719468)

\* The leap February of 2000
C14_WitnessFebruary ==
  /\ pc = "counted"
  /\ civil.a = DateOf(2000, 2, 1)
  /\ civil.b = DateOf(2000, 3, 1)
  /\ WSub(ti.b, ti.a) = W(29)

---------------------------------------------------------------------------
(* C15.  BreakTime splits the instant by floor division: with t the whole  *)
(* seconds and subsecond the rest, t * 1s + subsecond = tp and             *)
(* 0 <= subsecond < 1s, for instants before the epoch as well.  The second *)
(* conjunct reads t off the Breakdown: the civil fields counted as seconds *)
(* from the epoch, less the offset.                                        *)

\* The seconds since the epoch of the civil fields of a Breakdown
BreakdownSeconds(b) ==
  WSubS(UtcSeconds([year |-> WToInt(b.year), mon |-> b.month, day |-> b.day,
                    hour |-> b.hour, min |-> b.minute, sec |-> b.second]),
        b.offset)

C15_BreakTimeFloors ==
  pc \in {"formatted", "parsed"} =>
    /\ WLe(DurationZero, bd.subsecond)
    /\ WLt(bd.subsecond, Seconds(W(1)))
    /\ WAdd(Seconds(BreakdownSeconds(bd)), bd.subsecond) = src
    /\ WAdd(Seconds(SplitSeconds(src).t), SplitSeconds(src).subsecond) = src
    /\ SplitSeconds(src).subsecond = bd.subsecond

\* One nanosecond before the epoch is 1969-12-31 23:59:59.999999999
C15_Witness ==
  /\ pc = "formatted"
  /\ src = W(-1)
  /\ zone = UTCTimeZone
  /\ bd.year = W(1969)
  /\ bd.second = 59
  /\ bd.subsecond = W(999999999)

---------------------------------------------------------------------------
(* C16.  Parse's scan is a state machine that ends: every iteration of the *)
(* loop moves the directive cursor fmt forward or records the failure      *)
(* (data = nullptr); once the failure is recorded no directive is          *)
(* dispatched and no input consumed any more, and Parse returns false;     *)
(* Parse returns true only if every directive was processed (fmt at the    *)
(* NUL), the input was consumed up to trailing whitespace, and the         *)
(* conversion of the fields did not have to normalize them.  That the scan *)
(* ends is stated with a rank: it is never negative and the iteration that *)
(* is due makes it smaller.                                                *)

\* What is left to scan: nothing after the failure, else the rest of the
\* format and its NUL.
ScanRank(st) == IF st.data = nullptr THEN 0 ELSE Len(format) + 2 - st.fmt

C16_ScanEnds ==
  pc = "scanning" =>
    /\ scan.fmt \in 1..(Len(format) + 1)
    /\ ParseScanning(format, scan) =>
         ScanRank(ParseStep(format, input, scan)) < ScanRank(scan)

\* An iteration moves fmt forward or records the failure, and never moves
\* data back.
C16_StepAdvancesOrFails ==
  [][(pc = "scanning" /\ pc' = "scanning") =>
       /\ scan'.fmt > scan.fmt \/ (scan.data # nullptr /\ scan'.data = nullptr)
       /\ scan'.fmt >= scan.fmt
       /\ scan'.data = nullptr \/ scan'.data >= scan.data]_vars

\* After the failure the only step is the return of false, the locals and
\* *tpp as they were.
C16_FailureIsFinal ==
  [][(pc = "scanning" /\ scan.data = nullptr) =>
       (pc' = "parsed" /\ ~ok' /\ scan' = scan /\ tp' = tp)]_vars

\* Did the conversion of lines 665-693 leave the fields as they were?
Reconciled(st, tz) ==
  \/ st.saw_precent_s
  \/ ~MakeTimeInfo(ParseYear(st.tm.tm_year), st.tm.tm_mon + 1, st.tm.tm_mday,
                   IF st.twelve_hour /\ st.afternoon /\ st.tm.tm_hour < 12
                   THEN st.tm.tm_hour + 12 ELSE st.tm.tm_hour,
                   st.tm.tm_min,
                   IF st.tm.tm_sec = 60 THEN 59 ELSE st.tm.tm_sec,
                   IF st.offset # kintmin THEN UTCTimeZone ELSE tz).normalized

C16_TrueOnlyWhenDone ==
  (pc = "parsed" /\ ok) =>
    /\ scan.data # nullptr
    /\ scan.fmt = Len(format) + 1
    /\ \A i \in scan.data..Len(input) : IsSpace(input[i])
    /\ Reconciled(scan, zone)

C16_ScanStateMachine ==
  /\ C16_StepAdvancesOrFails
  /\ C16_FailureIsFinal
  /\ []C16_TrueOnlyWhenDone
  /\ []C16_ScanEnds

\* A parse that failed in the middle of the format, after three directives
C16_Witness ==
  /\ pc = "parsed"
  /\ ~ok
  /\ scan.data = nullptr
  /\ scan.fmt > 6
  /\ scan.fmt < Len(format) + 1

\* A parse that succeeded after trailing whitespace
C16_WitnessDone ==
  /\ pc = "parsed"
  /\ ok
  /\ scan.fmt = Len(format) + 1
  /\ scan.data <= Len(input)

---------------------------------------------------------------------------
(* C17.  The offset directives of Parse accept only the full shape: %z     *)
(* matches a sign, two hour digits of value 0..23 and two minute digits of *)
(* value 0..59 with no separator, giving sign * (hh * 3600 + mm * 60); %Ez *)
(* matches the same with an optional ':' between hours and minutes, or the *)
(* letter 'Z' for offset 0.  Any other text at the directive (no sign,     *)
(* hours only as in "+05", one minute digit, hours > 23, minutes > 59)     *)
(* makes Parse return false.                                               *)
(* The code accepts the hours alone: "+05" parses as +05:00.               *)

AllDigits(t) == \A i \in 1..Len(t) : IsDigit(t[i])

\* A sign, hh in 0..23, mm in 0..59
SignedHHMM(t) ==
  /\ Len(t) = 5
  /\ t[1] \in {"+", "-"}
  /\ AllDigits(SubSeq(t, 2, 5))
  /\ NumberOf(SubSeq(t, 2, 3)) <= 23
  /\ NumberOf(SubSeq(t, 4, 5)) <= 59

\* Has the text the shape the directive asks for?
OffsetShape(dir, t) ==
  \/ SignedHHMM(t)
  \/ /\ dir = "%Ez"
     /\ \/ t = <<"Z">>
        \/ Len(t) = 6 /\ t[4] = ":"
           /\ SignedHHMM(SubSeq(t, 1, 3) \o SubSeq(t, 5, 6))

\* The seconds east of UTC the shaped text spells
ShapedOffset(t) ==
  IF t = <<"Z">> THEN 0
  ELSE (IF t[1] = "-" THEN -1 ELSE 1)
       * ((NumberOf(SubSeq(t, 2, 3)) * 3600)
          + (NumberOf(SubSeq(t, Len(t) - 1, Len(t))) * 60))

C17_OffsetShapeIsStrict ==
  pc = "parsed" =>
    Let(Str(plan[1][2]), LAMBDA t :
      /\ ok => OffsetShape(plan[1][1], t)
      /\ (Len(plan) = 1 /\ OffsetShape(plan[1][1], t)) =>
           /\ ok
           /\ tp = Seconds(W(0 - ShapedOffset(t))))

\* What the code does with the full shapes and with the hours alone
C17_FullShapesAccepted ==
  pc = "parsed" =>
    Let(Str(plan[1][2]), LAMBDA t :
      (Len(plan) = 1 /\ OffsetShape(plan[1][1], t)) =>
        /\ ok
        /\ tp = Seconds(W(0 - ShapedOffset(t))))

C17_HoursAloneAccepted ==
  /\ pc = "parsed"
  /\ format = Str("%z")
  /\ input = Str("+05")
  /\ ok
  /\ tp = Seconds(W(-18000))

---------------------------------------------------------------------------
(* C18.  ParseInt(input, width, min, max, &out) for int and int64_t fails  *)
(* if no digit was read, if the accumulated value does not fit the type,   *)
(* or if the final value is outside [min, max]; otherwise it stores        *)
(* exactly the decimal value of the consumed characters.  The most         *)
(* negative value of the type is accepted, the magnitude one larger than   *)
(* the type's maximum without a sign is rejected, and on every failure the *)
(* output variable is left unchanged.                                      *)
(* As stated this fails for a negative zero: "-0" has a digit, fits and is *)
(* within [min, max], and line 156 rejects it.  What holds is the          *)
(* statement with that fourth cause of failure.                            *)

\* The number of digits from position i on, at most limit of them when
\* limit > 0
RECURSIVE DigitRun(_, _, _)
DigitRun(t, i, limit) ==
  IF i > Len(t) \/ ~IsDigit(t[i]) THEN 0
  ELSE IF limit = 1 THEN 1
  ELSE 1 + DigitRun(t, i + 1, IF limit > 0 THEN limit - 1 ELSE limit)

\* What ParseInt is to read of the text t: is there a sign, the digits (the
\* sign counts in the width), and the number the characters spell.
Numeric(t, width) ==
  LET neg == t # <<>> /\ t[1] = "-"
      first == IF neg THEN 2 ELSE 1
      n == IF neg /\ width = 1 THEN 0
           ELSE DigitRun(t, first, IF neg /\ width > 0 THEN width - 1
                                   ELSE width)
      digits == SubSeq(t, first, first + n - 1)
  IN  [neg |-> neg, digits |-> digits, end |-> first + n,
       value |-> IF neg THEN WNeg(WideOfDigits(digits))
                 ELSE WideOfDigits(digits)]

\* Does v fit the type whose least value is kmin?
FitsType(v, kmin) == WLe(kmin, v) /\ WLe(v, WNeg(WAddS(kmin, 1)))

\* The three causes of failure the claim names
NamedFailure(x, c) ==
  \/ x.digits = <<>>
  \/ ~FitsType(x.value, c.kmin)
  \/ ~(WLe(c.min, x.value) /\ WLe(x.value, c.max))

\* The sums of the digit loop, taken as negative numbers, stay in the type
NoStepOverflows(x, c) ==
  \A k \in 1..Len(x.digits) :
    WLe(c.kmin, WNeg(WideOfDigits(SubSeq(x.digits, 1, k))))

ParseIntAgrees(fails, x, c) ==
  IF fails THEN ti.dp = nullptr /\ ti.val = c.v0
  ELSE /\ ti.dp = x.end
       /\ ti.val = x.value
       /\ NoStepOverflows(x, c)

\* The claim as stated
C18_ParseIntExact ==
  pc = "read" =>
    Let(Numeric(input, civil.width), LAMBDA x :
      ParseIntAgrees(NamedFailure(x, civil), x, civil))

\* The claim with the negative zero among the failures
C18_ParseIntExactButMinusZero ==
  pc = "read" =>
    Let(Numeric(input, civil.width), LAMBDA x :
      ParseIntAgrees(NamedFailure(x, civil) \/ (x.neg /\ x.value = W(0)),
                     x, civil))

\* The most negative int64_t is read
C18_Witness ==
  /\ pc = "read"
  /\ input = Str("-9223372036854775808")
  /\ civil.kmin = INT64_MIN
  /\ ti.dp = 21
  /\ ti.val = INT64_MIN

\* INT64_MAX + 1 is not, and the output stays as it was
C18_WitnessRejected ==
  /\ pc = "read"
  /\ input = Str("9223372036854775808")
  /\ civil.kmin = INT64_MIN
  /\ ti.dp = nullptr
  /\ ti.val = civil.v0

---------------------------------------------------------------------------
(* C19.  AM/PM coupling in Parse.  twelve_hour is true exactly when the    *)
(* most recent hour-bearing directive (%H, %I, %r, %R, %T, %c, %X, %Ec,    *)
(* %EX, %OH, %OI) was a 12-hour one (%I, %r, %OI); afternoon is true       *)
(* exactly when the last matched %p text was PM; at the end the hour gets  *)
(* 12 more exactly when twelve_hour and afternoon hold and the hour is     *)
(* below 12.  So %p gives the same result before or after the hour         *)
(* directive, and %p with %H never shifts the hour.                        *)

TwelveHourDirectives == {"%I", "%r", "%OI"}

HourDirectives ==
  TwelveHourDirectives \cup {"%H", "%R", "%T", "%c", "%X", "%Ec", "%EX", "%OH"}

\* The pieces of the plan p whose directives lie before the cursor at: the
\* pieces Parse has dispatched.
RECURSIVE Dispatched(_, _)
Dispatched(p, at) ==
  IF p = <<>> \/ Len(Str(Head(p)[1])) > at - 1 THEN <<>>
  ELSE <<Head(p)>> \o Dispatched(Tail(p), at - Len(Str(Head(p)[1])))

\* The last piece of ps whose directive is in D, or <<>>
RECURSIVE LastOf(_, _)
LastOf(ps, D) ==
  IF ps = <<>> THEN <<>>
  ELSE IF ps[Len(ps)][1] \in D THEN ps[Len(ps)]
  ELSE LastOf(SubSeq(ps, 1, Len(ps) - 1), D)

IsPM(t) == Len(t) = 2 /\ t[1] \in {"P", "p"} /\ t[2] \in {"M", "m"}

C19_TwelveHourFlag ==
  pc \in {"scanning", "parsed"} =>
    Let(LastOf(Dispatched(plan, scan.fmt), HourDirectives), LAMBDA h :
      scan.twelve_hour <=> (h # <<>> /\ h[1] \in TwelveHourDirectives))

\* While nothing has failed every piece dispatched has matched.
C19_AfternoonFlag ==
  (pc \in {"scanning", "parsed"} /\ scan.data # nullptr) =>
    Let(LastOf(Dispatched(plan, scan.fmt), {"%p"}), LAMBDA p :
      scan.afternoon <=> (p # <<>> /\ IsPM(Str(p[2]))))

\* The seconds of the day of the fields the scan has left, the hour moved
\* on by 12 under the three conditions
ShiftedTime(st) ==
  ((IF st.twelve_hour /\ st.afternoon /\ st.tm.tm_hour < 12
    THEN st.tm.tm_hour + 12 ELSE st.tm.tm_hour) * 3600)
  + (st.tm.tm_min * 60) + st.tm.tm_sec

C19_HourShift ==
  (pc = "parsed" /\ scan.data # nullptr) =>
    /\ ok
    /\ tp = Seconds(W(ShiftedTime(scan)))

\* The hour of the day a plan of one hour and one marker spells, whatever
\* their order
HourOf(h, p) ==
  IF h[1] \in {"%I", "%OI"}
  THEN (NumberOf(SubSeq(Str(h[2]), 1, 2)) % 12)
       + (IF IsPM(Str(p[2])) THEN 12 ELSE 0)
  ELSE NumberOf(SubSeq(Str(h[2]), 1, 2))

C19_OrderDoesNotMatter ==
  (pc = "parsed" /\ scan.data # nullptr /\ Len(plan) = 3) =>
    Let(LastOf(plan, HourDirectives \ {"%r"}), LAMBDA h :
    Let(LastOf(plan, {"%p"}), LAMBDA p :
      (h # <<>> /\ p # <<>>) =>
        tp = Seconds(W((HourOf(h, p) * 3600) + (scan.tm.tm_min * 60)
                       + scan.tm.tm_sec))))

C19_AmPmCoupling ==
  /\ C19_TwelveHourFlag
  /\ C19_AfternoonFlag
  /\ C19_HourShift
  /\ C19_OrderDoesNotMatter

\* The marker before the hour: "PM 03" with "%p %I" is 15:00
C19_Witness ==
  /\ pc = "parsed"
  /\ format = Str("%p %I")
  /\ input = Str("PM 03")
  /\ ok
  /\ scan.twelve_hour /\ scan.afternoon
  /\ tp = Seconds(W(15 * 3600))

\* The marker after a 24-hour hour: "03 PM" with "%H %p" stays 03:00
C19_WitnessNoShift ==
  /\ pc = "parsed"
  /\ format = Str("%H %p")
  /\ input = Str("03 PM")
  /\ ok
  /\ ~scan.twelve_hour /\ scan.afternoon
  /\ tp = Seconds(W(3 * 3600))

---------------------------------------------------------------------------
(* C20.  Format's scratch buffer is never overrun: for every directive     *)
(* string and every Breakdown with canonical fields, any int64 year and    *)
(* any int offset, each conversion Format writes itself (%Y, %E4Y, %s, %m, *)
(* %d, %e, %H, %M, %S, %z, %Ez, %E*S, %E<n>S for every n in [0, 1024])     *)
(* writes at most 3 + 18 = 21 characters backwards from the end of the     *)
(* buffer and never before its first byte; the widest cases are a          *)
(* 20-character INT64_MIN and %E18S (2 + 1 + 18 characters), and the       *)
(* scaled value nanoseconds * 10^(n-9) stays in the int64 range.           *)

\* The Breakdown Format works from has canonical fields.
CanonicalBreakdown(b) ==
  /\ b.month \in 1..12 /\ b.day \in 1..31 /\ b.hour \in 0..23
  /\ b.minute \in 0..59 /\ b.second \in 0..59
  /\ WLe(W(0), b.subsecond) /\ WLt(b.subsecond, W(10^9))

\* The conversion just written has a fraction: seconds, a point, digits.
HasFraction(w) == Len(w) > 3 /\ w[3] = "."

\* The value Format64 was given for the fraction, read back from buf
FractionValue(w) == WideOfDigits(SubSeq(w, 4, Len(w)))

C20_ScratchFits ==
  pc = "formatting" => Len(scan.scratch) <= ScratchSize

\* Only a fraction of 18 digits fills the buffer; an integer leaves a byte.
C20_WidestCases ==
  (pc = "formatting" /\ ~HasFraction(scan.scratch))
    => Len(scan.scratch) <= ScratchSize - 1

C20_ScaledFits ==
  (pc = "formatting" /\ HasFraction(scan.scratch))
    => /\ InInt64(FractionValue(scan.scratch))
       /\ Len(scan.scratch) - 3 <= kDigits10_64

C20_ScratchNeverOverrun ==
  /\ pc = "formatting" => CanonicalBreakdown(bd)
  /\ C20_ScratchFits
  /\ C20_WidestCases
  /\ C20_ScaledFits

\* %E18S of 59.999999999 s fills the buffer to its first byte.
C20_Witness ==
  /\ pc = "formatting"
  /\ format = Str("%E18S")
  /\ scan.scratch = Str("59.999999999000000000")
  /\ Len(scan.scratch) = ScratchSize

\* %Y of the least int64 year: twenty characters.
C20_WitnessYear ==
  /\ pc = "formatting"
  /\ format = Str("%Y")
  /\ bd.year = INT64_MIN
  /\ bd.offset = kintmin
  /\ scan.scratch = Str("-9223372036854775808")

\* %E1024S is clamped to 18 digits.
C20_WitnessClamped ==
  /\ pc = "formatting"
  /\ format = PrecisionFormat(MaxDigits)
  /\ Len(scan.scratch) = ScratchSize

\* The stepped loop puts out what Format returns.
C20_SteppedIsFormat ==
  pc = "formatted" => out = FormatBreakdown(format, bd, src)

---------------------------------------------------------------------------
(* C21.  Format's %s and the calendar fields agree on the whole second of  *)
(* an instant: for every instant t, negative instants with a sub-second    *)
(* part included, the integer emitted by %s is the whole-second count that *)
(* BreakTime computes the fields of %Y %m %d %H %M %S from (the floor of t *)
(* in seconds), so that the %s value plus the sub-second part emitted by   *)
(* %E*S is t.                                                              *)

\* What %s put out: the text up to the first '|'
EpochText(o) ==
  IF \E i \in 1..Len(o) : o[i] = "|"
  THEN SubSeq(o, 1, (CHOOSE i \in 1..Len(o) :
                       o[i] = "|" /\ \A j \in 1..(i - 1) : o[j] # "|") - 1)
  ELSE o

\* The integer a text of an optional '-' and digits denotes
SignedOf(text) ==
  IF text # <<>> /\ text[1] = "-"
  THEN WNeg(WideOfDigits(SubSeq(text, 2, Len(text))))
  ELSE WideOfDigits(text)

C21_EpochSecondsAgree ==
  pc \in {"formatted", "parsed"} =>
    /\ SignedOf(EpochText(out)) = BreakdownSeconds(bd)
    /\ WAdd(Seconds(SignedOf(EpochText(out))), bd.subsecond) = src

\* From the epoch on, and at every whole second, the two do agree.
C21_AgreeWhereTruncationFloors ==
  (pc \in {"formatted", "parsed"}
   /\ (WLe(W(0), src) \/ bd.subsecond = W(0))) =>
    /\ SignedOf(EpochText(out)) = BreakdownSeconds(bd)
    /\ WAdd(Seconds(SignedOf(EpochText(out))), bd.subsecond) = src

\* Before the epoch with a sub-second part, %s is one more than the second
\* of the fields.
C21_OneSecondApart ==
  (pc \in {"formatted", "parsed"}
   /\ WLt(src, W(0)) /\ bd.subsecond # W(0)) =>
    SignedOf(EpochText(out)) = WAddS(BreakdownSeconds(bd), 1)

---------------------------------------------------------------------------
(* C22.  The offset stored by an offset directive (%z or %Ez) in Parse is  *)
(* computed only from the input characters the directive consumes: when    *)
(* ParseOffset leaves the minute digits unconsumed (fewer than two are     *)
(* there, the cursor stays right after the two hour digits) the minutes    *)
(* contribute 0 to the offset, and the characters left behind are seen by  *)
(* the following directive without having influenced the offset ("%z%d" on *)
(* "+055" must not yield an offset of 5 h 05 min together with day 5).     *)

\* The offset directive has just been dispatched and has matched.
OffsetJustRead ==
  /\ pc \in {"scanning", "parsed"}
  /\ scan.fmt = Len(Str(plan[1][1])) + 1
  /\ scan.data # nullptr

\* The characters the offset directive consumed
ConsumedByOffset == SubSeq(input, 1, scan.data - 1)

\* The seconds east of UTC a consumed text spells: a sign and hh, then
\* mm if it is there
SpelledOffset(t) ==
  IF t = <<"Z">> THEN 0
  ELSE (IF t[1] = "-" THEN -1 ELSE 1)
       * ((NumberOf(SubSeq(t, 2, 3)) * 3600)
          + (IF Len(t) > 3 THEN NumberOf(SubSeq(t, Len(t) - 1, Len(t))) * 60
             ELSE 0))

C22_OffsetOfConsumed ==
  OffsetJustRead => scan.offset = SpelledOffset(ConsumedByOffset)

\* "%z%d" on "+055" is day 5 at five hours east, if it is anything.
C22_LeftBehindDay ==
  (pc = "parsed" /\ format = Str("%z%d") /\ input = Str("+055") /\ ok) =>
    tp = Seconds(W((4 * 86400) - (5 * 3600)))

C22_OffsetFromConsumedOnly == C22_OffsetOfConsumed /\ C22_LeftBehindDay

\* With the minutes consumed, or with nothing after the hours that reads
\* as minutes, the offset is the one spelled.
C22_HoldsWithoutStrayMinutes ==
  (OffsetJustRead
   /\ \/ Len(ConsumedByOffset) # 3
      \/ ~IsDigit(CharAt(input, IF CharAt(input, scan.data) = ":"
                                   /\ plan[1][1] = "%Ez"
                                THEN scan.data + 1 ELSE scan.data))
      \/ Len(plan) = 2 /\ plan[2][2] = "60")
    => scan.offset = SpelledOffset(ConsumedByOffset)

\* What the code does on "+055": day 5 at 5 h 05 min east.
C22_StrayMinutesCounted ==
  /\ pc = "parsed"
  /\ format = Str("%z%d")
  /\ input = Str("+055")
  /\ ok
  /\ scan.offset = 18300
  /\ tp = Seconds(W((4 * 86400) - 18300))

===========================================================================
